---------------------------- MODULE Spec2Model ----------------------------
(***************************************************************************)
(* Model of the pixel-art analysis pipeline of girllich/geft:              *)
(*   - colour histogram and background matte (usePixelArtGeneration),      *)
(*   - grid sampling and reconstruction (useImageAnalysis /                *)
(*     usePixelArtGeneration),                                             *)
(*   - performFFT: column selection, combined and smoothed spectrum, peak  *)
(*     detection (useImageAnalysis),                                       *)
(*   - the offset and stride controls (OffsetStrideSpinner,                *)
(*     ImageFFTAnalyzer),                                                  *)
(*   - the retry loop of generatePixelArt and the groups of                *)
(*     generatePixelArtBatch (GeminiService),                              *)
(*   - the stored list of PixelArtStorage,                                 *)
(*   - the loading of uploaded and generated images, the pending callback  *)
(*     and isFFTComplete (useImageAnalysis, ImageFFTAnalyzer).             *)
(* A pixel is the tuple <<r, g, b, a>>; an image buffer is the row-major   *)
(* sequence of its pixels, so the byte index (y*width + x)*4 of the source *)
(* is the sequence index y*width + x + 1 here.                             *)
(* Numbers that are fractions in the source (the pixel spacing            *)
(* height/frequency, the stride) are kept as exact fractions <<n, d>>.     *)
(***************************************************************************)
EXTENDS Integers, Sequences, FiniteSets

VARIABLES
    \* ---- usePixelArtGeneration ----
    generatedPixelArt,     \* ImageData of the reconstruction, NoImage when null
    colorHistogram,        \* ColorCount[] state
    transparentPixelArt,   \* the image behind transparentPixelArtDataURL
    \* ---- createTransparentVersion in flight ----
    artPc,                 \* position inside generatePixelArt's call chain
    targetColor,           \* parameter targetColor
    data,                  \* newImgData.data, the copy being modified
    visited,               \* visited[] flags
    queue,                 \* flood-fill queue of <<x, y>>
    dequeued,              \* history: the pixels shifted off the queue, in order
    calledWith,            \* history: pixelArtData.data as it was at the call
    \* ---- useImageAnalysis ----
    imageData,             \* ImageData of the source image
    dominantFrequency,     \* number | null
    pixelSamples,          \* PixelSample[]
    sampleFreq,            \* history: the frequency pixelSamples was built with
    fftResults,            \* FFTResult[], each [x, magnitudes]
    combinedFFT,           \* number[]
    smoothedFFT,           \* number[]
    selectedLines,         \* number[]
    processing,            \* boolean
    \* ---- performFFT in flight ----
    fftPc,                 \* position of performFFT
    lines,                 \* local lines (usedPositions is its set)
    drawn,                 \* local x of the last loop iteration
    results,               \* local results
    combinedMagnitudes,    \* local combinedMagnitudes
    smoothedMagnitudes,    \* local smoothedMagnitudes
    \* ---- ImageFFTAnalyzer (index) ----
    stride,                \* the stride state, a fraction <<n, d>>
    artStride,             \* history: the stride generatePixelArt last used
    artFreq,               \* history: sampleFreq of the samples it last used
    offset,                \* the offset state, in thousandths
    isFFTComplete,         \* boolean
    reprocessed,           \* history: the last call of
                           \* reprocessWithOffsetStride
    handled,               \* history: the last call of handleOffsetChange or
                           \* handleStrideChange of ImageFFTAnalyzer
    \* ---- GeminiService.generatePixelArt in flight ----
    apiKey,                \* whether this.apiKey is set
    gemPc,                 \* position of generatePixelArt
    attempt,               \* local attempt
    result,                \* local result, the parsed body of the last response
    geminiResponse,        \* the GeminiResponse returned
    requests,              \* history: the number of fetch calls made
    responses,             \* history: the number of fetch calls settled
    lastResponse,          \* history: what the last fetch settled with
    \* ---- GeminiService.generatePixelArtBatch in flight ----
    count,                 \* parameter count
    concurrencyLimit,      \* parameter concurrencyLimit
    batchPc,               \* position of generatePixelArtBatch
    batchIndex,            \* local i of the outer loop
    batch,                 \* local batch: the state of each promise in it
    batchImages,           \* local results, the number of images in it
    started,               \* history: the number of generatePixelArt calls
    \* ---- PixelArtStorage ----
    stored,                \* the list under STORAGE_KEY, [] when the key is
                           \* absent; an item is the number of its save
    saveCalls,             \* history: the number of savePixelArt calls
    storeOps,              \* history: the number of calls of the run
    lastCall,              \* history: how the last call ended
    \* ---- loading of images (useImageAnalysis, ImageFFTAnalyzer) ----
    pendingCallback,       \* the pendingCallback state: id 0 when null, else
                           \* the load that passed it and the image whose
                           \* data its closure holds
    loading,               \* the images whose onload has not fired yet
    rendered,              \* the values of the last render: what the effect
                           \* dependencies are compared with and what the
                           \* event handlers of the page close over
    loads,                 \* history: the number of loads started
    passed,                \* history: the loads that passed a callback
    ran,                   \* history: the callbacks run, in order
    analysed               \* history: the image performFFT last ran on

artVars  == <<generatedPixelArt, colorHistogram, transparentPixelArt>>
fillVars == <<artPc, targetColor, data, visited, queue, dequeued, calledWith>>
gridVars == <<imageData, dominantFrequency, pixelSamples, sampleFreq, stride,
              artStride, artFreq>>
fftVars  == <<fftResults, combinedFFT, smoothedFFT, selectedLines, processing,
              fftPc, lines, drawn, results, combinedMagnitudes,
              smoothedMagnitudes>>
spinVars == <<offset, isFFTComplete, reprocessed, handled>>
gemVars  == <<apiKey, gemPc, attempt, result, geminiResponse, requests,
              responses, lastResponse>>
batchVars == <<count, concurrencyLimit, batchPc, batchIndex, batch,
               batchImages, started>>
storeVars == <<stored, saveCalls, storeOps, lastCall>>
uploadVars == <<pendingCallback, loading, rendered, loads, passed, ran,
                analysed>>
extVars  == <<gemVars, batchVars, storeVars, uploadVars>>
vars     == <<artVars, fillVars, gridVars, fftVars, spinVars, extVars>>

-----------------------------------------------------------------------------
(* Bounds of the model *)

MaxW == 3           \* widest reconstructed image of SpecArt
MaxH == 3           \* tallest reconstructed image of SpecArt
MaxPixels == 9      \* most pixels of a reconstructed image of SpecArt
SmallPixels == 4    \* images up to this size draw from the full palette
GridMaxW == 3       \* widest source image of SpecGrid
GridMaxH == 4       \* tallest source image of SpecGrid
MaxFreq == 4        \* largest frequency handed to generatePixelSamples
FftMaxW == 3        \* widest source image of SpecFFT
FftMaxH == 14       \* tallest source image of SpecFFT
FftLowPixels == 6   \* most pixels of a source image of SpecFFT wider than 1
MaxMagnitude == 2   \* largest value of a smoothed spectrum bin
SpinW == 2          \* width of the source image of SpecSpinner
SpinH == 2          \* height of the source image of SpecSpinner
SpinMinStride == 5  \* smallest stride of SpecSpinner, in tenths
SpinMaxStride == 20 \* largest stride the controls of SpecSpinner set, in tenths
LivePixels == 6     \* most pixels of a reconstructed image of SpecArtLive
MaxCandidates == 2  \* most candidates of a response of SpecGemini
MaxCount == 5       \* largest count of SpecBatch
MaxLimit == 3       \* largest concurrencyLimit of SpecBatch
MaxStoreOps == 4    \* most calls of PixelArtStorage in a run of SpecStorage
UploadW == 2        \* width of the source images of SpecUpload
UploadH == 12       \* height of the source images of SpecUpload
MaxLoads == 3       \* most image loads started in a run of SpecUpload

-----------------------------------------------------------------------------
(* Values *)

Null == -1
NoImage == [width |-> 0, height |-> 0, data |-> <<>>]
TransparentBlack == <<0, 0, 0, 0>>

Abs(n) == IF n < 0 THEN -n ELSE n

\* Palette of reconstructed images.  cB is within tolerance 5 of cA on every
\* channel, cC is 6 away from cB (and 11 from cA), cD has the RGB of cA and
\* another alpha, cZ is what a cleared canvas pixel reads as.
cA == <<100, 100, 100, 255>>
cB == <<105, 100, 95, 255>>
cC == <<111, 100, 100, 255>>
cD == <<100, 100, 100, 128>>
cZ == TransparentBlack
MattePalette == {cA, cB, cC}
FullPalette == {cA, cB, cC, cD, cZ}

PixelIndex(x, y, width) == y * width + x + 1
PixelX(i, width) == (i - 1) % width
PixelY(i, width) == (i - 1) \div width

-----------------------------------------------------------------------------
(* generateColorHistogram *)

\* r.toString(16)
ToString16(n) == IF n < 16 THEN <<n>> ELSE <<n \div 16, n % 16>>
\* .padStart(2, '0')
PadStart2(s) == IF Len(s) < 2 THEN <<0>> \o s ELSE s

ColorKeyWithAlpha(p) ==
    PadStart2(ToString16(p[1])) \o PadStart2(ToString16(p[2]))
        \o PadStart2(ToString16(p[3])) \o PadStart2(ToString16(p[4]))
\* `#${r.toString(16).padStart(2,'0')}${g...}${b...}`
ColorKey(p) ==
    PadStart2(ToString16(p[1])) \o PadStart2(ToString16(p[2]))
        \o PadStart2(ToString16(p[3]))

\* position of key k in the insertion-ordered map, 0 when absent
KeyPos(counts, k) ==
    IF \E j \in 1..Len(counts) : counts[j].color = k
    THEN CHOOSE j \in 1..Len(counts) : counts[j].color = k
    ELSE 0

SkipNothing(p) == FALSE
\* if (a === 0) continue;
SkipPixel(p) == p[4] = 0

\* the counting loop; counts is the colorCounts object as the sequence of its
\* values in insertion order (its keys start with '#', so Object.values
\* returns them in insertion order)
RECURSIVE CountColors(_, _, _)
CountColors(d, i, counts) ==
    IF i > Len(d) THEN counts
    ELSE IF SkipPixel(d[i]) THEN CountColors(d, i + 1, counts)
    ELSE LET k == ColorKey(d[i])
             j == KeyPos(counts, k)
         IN  IF j > 0
             THEN CountColors(d, i + 1,
                      [counts EXCEPT ![j].count = counts[j].count + 1])
             ELSE CountColors(d, i + 1,
                      Append(counts, [color |-> k, count |-> 1, rgba |-> d[i]]))

\* where a stable sort by (b.count - a.count) puts e among the sorted prefix:
\* before the first entry with a smaller count
InsertPosTiesFirst(sorted, e) ==
    IF \E j \in 1..Len(sorted) : sorted[j].count <= e.count
    THEN CHOOSE j \in 1..Len(sorted) :
            /\ sorted[j].count <= e.count
            /\ \A h \in 1..(j - 1) : sorted[h].count > e.count
    ELSE Len(sorted) + 1
InsertPos(sorted, e) ==
    IF \E j \in 1..Len(sorted) : sorted[j].count < e.count
    THEN CHOOSE j \in 1..Len(sorted) :
            /\ sorted[j].count < e.count
            /\ \A h \in 1..(j - 1) : sorted[h].count >= e.count
    ELSE Len(sorted) + 1

InsertAt(s, j, e) == SubSeq(s, 1, j - 1) \o <<e>> \o SubSeq(s, j, Len(s))

\* Object.values(colorCounts).sort((a, b) => b.count - a.count)
RECURSIVE SortByCount(_, _)
SortByCount(todo, sorted) ==
    IF todo = <<>> THEN sorted
    ELSE SortByCount(Tail(todo),
             InsertAt(sorted, InsertPos(sorted, Head(todo)), Head(todo)))

SortedColors(d) == SortByCount(CountColors(d, 1, <<>>), <<>>)

-----------------------------------------------------------------------------
(* createTransparentVersion *)

Tolerance == 5

\* the comparison of isTargetColor
Matches(p, t) ==
    /\ Abs(p[1] - t[1]) <= Tolerance
    /\ Abs(p[2] - t[2]) <= Tolerance
    /\ Abs(p[3] - t[3]) <= Tolerance

IsTargetColor(d, t, width, x, y) == Matches(d[PixelIndex(x, y, width)], t)

\* the pixels the two seeding loops look at, in the order they look at them
TopBottomCandidates(width, height) ==
    [i \in 1..(2 * width) |->
        IF i % 2 = 1 THEN <<(i - 1) \div 2, 0>>
                     ELSE <<(i - 1) \div 2, height - 1>>]
LeftRightCandidates(width, height) ==
    [i \in 1..(2 * height) |->
        IF i % 2 = 1 THEN <<0, (i - 1) \div 2>>
                     ELSE <<width - 1, (i - 1) \div 2>>]
EdgeCandidates(width, height) ==
    TopBottomCandidates(width, height) \o LeftRightCandidates(width, height)

\* the queue after the two seeding loops
SeedQueue(d, t, width, height) ==
    LET IsSeed(c) == IsTargetColor(d, t, width, c[1], c[2])
    IN  SelectSeq(EdgeCandidates(width, height), IsSeed)

Range(s) == {s[i] : i \in 1..Len(s)}

\* visited[index] = true for every pushed cell
RECURSIVE MarkVisited(_, _, _)
MarkVisited(vis, cells, width) ==
    IF cells = <<>> THEN vis
    ELSE MarkVisited([vis EXCEPT ![PixelIndex(Head(cells)[1], Head(cells)[2], width)] = TRUE],
                     Tail(cells), width)

EightDirections ==
    <<<<-1, 0>>, <<1, 0>>, <<0, -1>>, <<0, 1>>,
      <<-1, -1>>, <<1, 1>>, <<1, -1>>, <<-1, 1>>>>
\* const directions = [[-1, 0], [1, 0], [0, -1], [0, 1]]
Directions == <<<<-1, 0>>, <<1, 0>>, <<0, -1>>, <<0, 1>>>>

\* the neighbours pushed if visited were not consulted
NewNeighboursRevisiting(d, vis, t, width, height, x, y) ==
    LET cand == [k \in 1..Len(Directions) |->
                    <<x + Directions[k][1], y + Directions[k][2]>>]
        Ok(c) == /\ c[1] >= 0 /\ c[1] < width /\ c[2] >= 0 /\ c[2] < height
                 /\ IsTargetColor(d, t, width, c[1], c[2])
    IN  SelectSeq(cand, Ok)
\* the neighbours one loop iteration pushes for the dequeued pixel <<x, y>>
NewNeighbours(d, vis, t, width, height, x, y) ==
    LET cand == [k \in 1..Len(Directions) |->
                    <<x + Directions[k][1], y + Directions[k][2]>>]
        Ok(c) == /\ c[1] >= 0 /\ c[1] < width /\ c[2] >= 0 /\ c[2] < height
                 /\ ~vis[PixelIndex(c[1], c[2], width)]
                 /\ IsTargetColor(d, t, width, c[1], c[2])
    IN  SelectSeq(cand, Ok)

\* data[index + 3] = 0
ClearAlpha(p) == <<p[1], p[2], p[3], 0>>

\* one iteration of the while loop on the state [data, visited, queue]
FillIteration(st, t, width, height) ==
    LET c  == Head(st.queue)
        i  == PixelIndex(c[1], c[2], width)
        d2 == [st.data EXCEPT ![i] = ClearAlpha(st.data[i])]
        nb == NewNeighbours(d2, st.visited, t, width, height, c[1], c[2])
    IN  [data    |-> d2,
         visited |-> MarkVisited(st.visited, nb, width),
         queue   |-> Tail(st.queue) \o nb]

\* the while loop run to its end
RECURSIVE RunFill(_, _, _, _)
RunFill(st, t, width, height) ==
    IF st.queue = <<>> THEN st
    ELSE RunFill(FillIteration(st, t, width, height), t, width, height)

\* the state createTransparentVersion has built when the while loop starts
SeededFill(t, img) ==
    LET q == SeedQueue(img.data, t, img.width, img.height)
    IN  [data    |-> img.data,
         visited |-> MarkVisited([i \in 1..(img.width * img.height) |-> FALSE],
                                 q, img.width),
         queue   |-> q]

\* createTransparentVersion as a whole: the image it hands to putImageData
CreateTransparentVersion(t, img) ==
    [width  |-> img.width,
     height |-> img.height,
     data   |-> RunFill(SeededFill(t, img), t, img.width, img.height).data]

NoCopy == TRUE
\* whether newImgData.data is the very buffer of pixelArtData.data:
\* new Uint8ClampedArray(typedArray) allocates a buffer of its own
SharesInputBuffer == FALSE

\* what a write to newImgData.data leaves in pixelArtData
InputAfterWrite(img, written) ==
    IF SharesInputBuffer THEN [img EXCEPT !.data = written] ELSE img

-----------------------------------------------------------------------------
(* SpecArt: generateColorHistogram and createTransparentVersion on any     *)
(* reconstructed image, the flood fill one loop iteration at a time        *)

ArtShapes ==
    {s \in (1..MaxW) \X (1..MaxH) : s[1] * s[2] <= MaxPixels}
ArtPalette(n) == IF n <= SmallPixels THEN FullPalette ELSE MattePalette
\* the reconstructed images of shape s
ArtImages(s) ==
    {[width |-> s[1], height |-> s[2], data |-> d] :
        d \in [1..(s[1] * s[2]) -> ArtPalette(s[1] * s[2])]}

GridIdle ==
    /\ imageData = NoImage
    /\ dominantFrequency = Null
    /\ pixelSamples = <<>>
    /\ sampleFreq = Null
    /\ stride = <<1, 1>>
    /\ artStride = <<1, 1>>
    /\ artFreq = Null
FFTIdle ==
    /\ fftResults = <<>>
    /\ combinedFFT = <<>>
    /\ smoothedFFT = <<>>
    /\ selectedLines = <<>>
    /\ processing = FALSE
    /\ fftPc = "idle"
    /\ lines = <<>>
    /\ drawn = Null
    /\ results = <<>>
    /\ combinedMagnitudes = <<>>
    /\ smoothedMagnitudes = <<>>
SpinnerIdle ==
    /\ offset = 0
    /\ isFFTComplete = FALSE
    /\ reprocessed = <<>>
    /\ handled = <<>>
GeminiIdle ==
    /\ apiKey = FALSE
    /\ gemPc = "idle"
    /\ attempt = 0
    /\ result = Null
    /\ geminiResponse = Null
    /\ requests = 0
    /\ responses = 0
    /\ lastResponse = [kind |-> "none"]
BatchIdle ==
    /\ count = 0
    /\ concurrencyLimit = 1
    /\ batchPc = "idle"
    /\ batchIndex = 0
    /\ batch = <<>>
    /\ batchImages = 0
    /\ started = 0
StorageIdle ==
    /\ stored = <<>>
    /\ saveCalls = 0
    /\ storeOps = 0
    /\ lastCall = "none"
NoCallback == [id |-> 0, image |-> 0]
UploadIdle ==
    /\ pendingCallback = NoCallback
    /\ loading = {}
    /\ rendered = [imageData |-> NoImage, pendingCallback |-> NoCallback,
                   dominantFrequency |-> Null]
    /\ loads = 0
    /\ passed = {}
    /\ ran = <<>>
    /\ analysed = NoImage
ExtIdle == GeminiIdle /\ BatchIdle /\ StorageIdle /\ UploadIdle
FillIdle ==
    /\ targetColor = TransparentBlack
    /\ data = <<>>
    /\ visited = <<>>
    /\ queue = <<>>
    /\ dequeued = <<>>
    /\ calledWith = <<>>

InitArt ==
    /\ \E s \in ArtShapes : generatedPixelArt \in ArtImages(s)
    /\ colorHistogram = <<>>
    /\ transparentPixelArt = NoImage
    /\ artPc = "generated"
    /\ FillIdle
    /\ GridIdle
    /\ FFTIdle
    /\ SpinnerIdle
    /\ ExtIdle

\* generateColorHistogram up to the allocation of visited and queue in
\* createTransparentVersion
GenerateColorHistogram ==
    /\ artPc = "generated"
    /\ LET sortedColors == SortedColors(generatedPixelArt.data)
       IN  /\ colorHistogram' = sortedColors
           /\ calledWith' = generatedPixelArt.data
           /\ IF Len(sortedColors) > 0
              THEN /\ targetColor' = sortedColors[1].rgba
                   /\ data' = generatedPixelArt.data
                   /\ visited' = [i \in 1..Len(generatedPixelArt.data) |-> FALSE]
                   /\ artPc' = "seed"
              ELSE /\ artPc' = "done"
                   /\ UNCHANGED <<targetColor, data, visited>>
    /\ UNCHANGED <<generatedPixelArt, transparentPixelArt, queue, dequeued>>
    /\ UNCHANGED <<gridVars, fftVars, spinVars, extVars>>

\* the two loops over the edges
SeedEdges ==
    /\ artPc = "seed"
    /\ LET q == SeedQueue(data, targetColor, generatedPixelArt.width,
                          generatedPixelArt.height)
       IN  /\ queue' = q
           /\ visited' = MarkVisited(visited, q, generatedPixelArt.width)
    /\ artPc' = "fill"
    /\ UNCHANGED <<artVars, targetColor, data, dequeued, calledWith>>
    /\ UNCHANGED <<gridVars, fftVars, spinVars, extVars>>

\* one iteration of while (queue.length > 0)
FillStep ==
    /\ artPc = "fill"
    /\ queue # <<>>
    /\ LET st == FillIteration([data |-> data, visited |-> visited, queue |-> queue],
                               targetColor, generatedPixelArt.width,
                               generatedPixelArt.height)
       IN  /\ data' = st.data
           /\ visited' = st.visited
           /\ queue' = st.queue
           /\ generatedPixelArt' = InputAfterWrite(generatedPixelArt, st.data)
    /\ dequeued' = Append(dequeued, Head(queue))
    /\ UNCHANGED <<colorHistogram, transparentPixelArt, artPc, targetColor, calledWith>>
    /\ UNCHANGED <<gridVars, fftVars, spinVars, extVars>>

\* ctx.putImageData(newImgData, 0, 0) and setTransparentPixelArtDataURL
PutImageData ==
    /\ artPc = "fill"
    /\ queue = <<>>
    /\ transparentPixelArt' = [width  |-> generatedPixelArt.width,
                               height |-> generatedPixelArt.height,
                               data   |-> data]
    /\ artPc' = "done"
    /\ UNCHANGED <<generatedPixelArt, colorHistogram>>
    /\ UNCHANGED <<targetColor, data, visited, queue, dequeued, calledWith>>
    /\ UNCHANGED <<gridVars, fftVars, spinVars, extVars>>

NextArt ==
    \/ GenerateColorHistogram
    \/ SeedEdges
    \/ FillStep
    \/ PutImageData

SpecArt == InitArt /\ [][NextArt]_vars
\* the while loop is synchronous code: once entered it runs until its
\* condition fails
InitArtLive ==
    /\ InitArt
    /\ generatedPixelArt.width * generatedPixelArt.height <= LivePixels
SpecArtLive == InitArtLive /\ [][NextArt]_vars /\ WF_vars(FillStep)

-----------------------------------------------------------------------------
(* Fractions and the canvas *)

Min(a, b) == IF a < b THEN a ELSE b

RECURSIVE GCD(_, _)
GCD(a, b) == IF b = 0 THEN a ELSE GCD(b, a % b)
\* the number n/d, in lowest terms
Frac(n, d) == <<n \div GCD(n, d), d \div GCD(n, d)>>

FloorDiv(n, d) == n \div d
\* Math.round(n / d) for n >= 0, d > 0: halves round up
RoundDiv(n, d) == (2 * n + d) \div (2 * d)

\* The canvas keeps 8-bit premultiplied colour.  fillRect with
\* fillStyle rgba(r, g, b, a/255) on a cleared pixel stores the premultiplied
\* colour; getImageData divides the alpha out again.
CssAlphaUnscaled(a) == Min(255, a * 255)
\* the alpha a / 255 of the fillStyle, as the canvas keeps it
CssAlpha(a) == RoundDiv(a * 255, 255)
Premultiply(c, a) == RoundDiv(c * a, 255)
Unpremultiply(c, a) == IF a = 0 THEN 0 ELSE Min(255, RoundDiv(c * 255, a))
FillRect(color) ==
    LET a == CssAlpha(color[4])
    IN  <<Premultiply(color[1], a), Premultiply(color[2], a),
          Premultiply(color[3], a), a>>
GetImageData(st) ==
    <<Unpremultiply(st[1], st[4]), Unpremultiply(st[2], st[4]),
      Unpremultiply(st[3], st[4]), st[4]>>

-----------------------------------------------------------------------------
(* generatePixelSamples and generatePixelArt *)

\* what data[index .. index+3] reads at a byte offset outside the buffer
UndefinedPixel == <<Null, Null, Null, Null>>
\* imgDataToProcess.data[(centerY * imgWidth + centerX) * 4 + c], c = 0..3
ReadPixel(img, x, y) ==
    IF x >= 0 /\ y >= 0 /\ PixelIndex(x, y, img.width) <= Len(img.data)
    THEN img.data[PixelIndex(x, y, img.width)]
    ELSE UndefinedPixel

CellCorner(g, spacing) == FloorDiv(g * spacing[1], spacing[2])
\* Math.floor((g + 0.5) * pixelSpacing)
CellCenter(g, spacing) == FloorDiv((2 * g + 1) * spacing[1], 2 * spacing[2])

\* Math.round(size / pixelSpacing)
Estimated(size, spacing) == RoundDiv(size * spacing[2], spacing[1])

WithinOrOnBounds(x, y, img) == x <= img.width /\ y <= img.height
\* if (centerX < imgWidth && centerY < imgHeight)
WithinBounds(x, y, img) == x < img.width /\ y < img.height

\* the grid cells in the order of the two nested loops
GridCells(w, h) ==
    [i \in 1..(w * h) |-> <<(i - 1) % w, (i - 1) \div w>>]

\* the samples array generatePixelSamples builds for frequency > 0
GeneratePixelSamples(frequency, img) ==
    LET pixelSpacing == Frac(img.height, frequency)
        estimatedWidth == Estimated(img.width, pixelSpacing)
        estimatedHeight == Estimated(img.height, pixelSpacing)
        Center(c) == <<CellCenter(c[1], pixelSpacing), CellCenter(c[2], pixelSpacing)>>
        Inside(c) == WithinBounds(Center(c)[1], Center(c)[2], img)
        kept == SelectSeq(GridCells(estimatedWidth, estimatedHeight), Inside)
    IN  [k \in 1..Len(kept) |->
            [x |-> Center(kept[k])[1],
             y |-> Center(kept[k])[2],
             color |-> ReadPixel(img, Center(kept[k])[1], Center(kept[k])[2])]]

\* the canvas generatePixelArt draws and reads back with getImageData
DrawSamples(samples, estimatedWidth, estimatedHeight) ==
    [width  |-> estimatedWidth,
     height |-> estimatedHeight,
     data   |-> <<>> \o [i \in 1..(estimatedWidth * estimatedHeight) |->
                    IF i - 1 < Len(samples)
                    THEN GetImageData(FillRect(samples[i].color))
                    ELSE TransparentBlack]]

-----------------------------------------------------------------------------
(* SpecGrid: performFFT publishing a frequency and sampling the grid, the  *)
(* stride effect of ImageFFTAnalyzer and the effect of                     *)
(* usePixelArtGeneration, on one source image                              *)

\* The canvas pixel under (x, y) of source image number k, premultiplied.
\* Every opaque or half-transparent pixel of an image differs from the
\* others; image 0 is opaque, image 1 mixes opaque, half-transparent and
\* transparent pixels.
StoredAlpha(x, y, k) ==
    IF k = 0 THEN 255
    ELSE IF (x + 2 * y) % 3 = 0 THEN 255
    ELSE IF (x + 2 * y) % 3 = 1 THEN 128
    ELSE 0
StoredPixel(x, y, k) ==
    LET a == StoredAlpha(x, y, k)
    IN  IF a = 255 THEN <<(10 * (x + 1)) % 256, (10 * (y + 1)) % 256, 7, 255>>
        ELSE IF a = 128 THEN <<5 * (x + 1), 5 * (y + 1), 3, 128>>
        ELSE TransparentBlack
\* const imgData = ctx.getImageData(0, 0, img.width, img.height)
SourceImage(w, h, k) ==
    [width  |-> w,
     height |-> h,
     data   |-> [i \in 1..(w * h) |->
                    GetImageData(StoredPixel(PixelX(i, w), PixelY(i, w), k))]]
GridImages ==
    {SourceImage(w, h, k) : w \in 1..GridMaxW, h \in 1..GridMaxH, k \in 0..1}

InitGrid ==
    /\ imageData \in GridImages
    /\ dominantFrequency = Null
    /\ pixelSamples = <<>>
    /\ sampleFreq = Null
    /\ stride = <<1, 1>>
    /\ artStride = <<1, 1>>
    /\ artFreq = Null
    /\ generatedPixelArt = NoImage
    /\ colorHistogram = <<>>
    /\ transparentPixelArt = NoImage
    /\ artPc = "idle"
    /\ FillIdle
    /\ FFTIdle
    /\ SpinnerIdle
    /\ ExtIdle

\* generatePixelSamples(frequency, imgDataParam) as a call: the early return
\* and setPixelSamples(samples)
CallGeneratePixelSamples(frequency, img) ==
    IF img = NoImage \/ frequency <= 0
    THEN UNCHANGED <<pixelSamples, sampleFreq>>
    ELSE /\ pixelSamples' = GeneratePixelSamples(frequency, img)
         /\ sampleFreq' = frequency

\* setDominantFrequency(peakFrequency) and, for peakFrequency > 0,
\* generatePixelSamples(peakFrequency, imgDataToProcess)
SetFrequencyAndSample(peakFrequency) ==
    /\ dominantFrequency' = peakFrequency
    /\ IF peakFrequency > 0
       THEN CallGeneratePixelSamples(peakFrequency, imageData)
       ELSE UNCHANGED <<pixelSamples, sampleFreq>>

\* the end of performFFT, for any frequency it may have found
PublishFrequency(peakFrequency) ==
    /\ SetFrequencyAndSample(peakFrequency)
    /\ UNCHANGED <<imageData, stride, artStride, artFreq>>
    /\ UNCHANGED <<artVars, fillVars, fftVars, spinVars, extVars>>

\* React.useEffect "Update stride when FFT completes"
StrideEffect ==
    /\ dominantFrequency > 0
    /\ imageData.height > 0
    /\ stride' = Frac(imageData.height, dominantFrequency)
    /\ UNCHANGED <<imageData, dominantFrequency, pixelSamples, sampleFreq,
                   artStride, artFreq>>
    /\ isFFTComplete' = TRUE
    /\ UNCHANGED <<offset, reprocessed, handled>>
    /\ UNCHANGED <<artVars, fillVars, fftVars, extVars>>

\* the effect of usePixelArtGeneration: generatePixelArt, then
\* generateColorHistogram, then createTransparentVersion
ConditionsMetWithoutFrequency ==
    Len(pixelSamples) > 0 /\ imageData # NoImage
\* dominantFrequency && dominantFrequency > 0 && pixelSamples.length > 0 && imageData
ConditionsMet ==
    dominantFrequency > 0 /\ Len(pixelSamples) > 0 /\ imageData # NoImage

PixelArtEffect ==
    /\ ConditionsMet
    /\ LET pixelSpacing == stride
           estimatedWidth == Estimated(imageData.width, pixelSpacing)
           estimatedHeight == Estimated(imageData.height, pixelSpacing)
           generatedData == DrawSamples(pixelSamples, estimatedWidth, estimatedHeight)
           sortedColors == SortedColors(generatedData.data)
       IN  IF estimatedWidth = 0 \/ estimatedHeight = 0
           THEN \* getImageData of an empty rectangle throws IndexSizeError
                UNCHANGED <<artVars, artStride, artFreq>>
           ELSE /\ colorHistogram' = sortedColors
                /\ IF Len(sortedColors) > 0
                   THEN LET t == CreateTransparentVersion(sortedColors[1].rgba,
                                                          generatedData)
                        IN  /\ transparentPixelArt' = t
                            /\ generatedPixelArt' = InputAfterWrite(generatedData, t.data)
                   ELSE /\ generatedPixelArt' = generatedData
                        /\ UNCHANGED transparentPixelArt
                /\ artStride' = stride
                /\ artFreq' = sampleFreq
    /\ UNCHANGED <<imageData, dominantFrequency, pixelSamples, sampleFreq, stride>>
    /\ UNCHANGED <<fillVars, fftVars, spinVars, extVars>>

\* the frequencies performFFT may find: an index of a spectrum that is
\* shorter than the image is high, or 0
GridFrequencies == 0..Min(MaxFreq, imageData.height)

NextGrid ==
    \/ \E peakFrequency \in GridFrequencies : PublishFrequency(peakFrequency)
    \/ StrideEffect
    \/ PixelArtEffect

SpecGrid == InitGrid /\ [][NextGrid]_vars

-----------------------------------------------------------------------------
(* SpecFFT: performFFT on one source image, the column selection one draw  *)
(* at a time.  The transform of a line is not computed: for a line of      *)
(* n derivatives it is any array of n magnitudes that is symmetric as the  *)
(* spectrum of a real signal is.  A smoothed value v / KernelSum is kept   *)
(* as its numerator v.                                                     *)

Max(a, b) == IF a > b THEN a ELSE b

NumLines == 30

\* lines.length < 30 && lines.length < imgWidth
MoreLinesWanted(selected, imgWidth) ==
    Len(selected) < NumLines /\ Len(selected) < imgWidth

RandomPositionsRounded(imgWidth) == 0..imgWidth
\* Math.floor(Math.random() * imgWidth), Math.random() in [0, 1)
RandomPositions(imgWidth) == 0..(imgWidth - 1)

\* the positions the loop is given in the model: any position for an image
\* up to FftMaxW wide; for a wider image the positions already selected and
\* the first one that is not
Draws(imgWidth, selected) ==
    IF imgWidth <= FftMaxW THEN RandomPositions(imgWidth)
    ELSE {x \in RandomPositions(imgWidth) : x <= Len(selected)}

\* the derivatives of a line: one per pair of neighbouring rows
NumDerivatives(imgHeight) == Max(imgHeight - 1, 0)

\* magnitudes of the transform of n real values, n >= 1: bin k and bin n - k
\* hold the same magnitude, so the array is its first n \div 2 + 1 bins
\* mirrored
Mirror(half, n) ==
    [k \in 1..n |-> IF k <= Len(half) THEN half[k] ELSE half[n - k + 2]]
Spectra(n) ==
    {Mirror(half, n) : half \in [1..(n \div 2 + 1) -> 0..MaxMagnitude]}
\* what math.fft does with an array of no values: the library is not part
\* of the repository; it either returns an empty array or throws
FftOfNothing == {"empty", "throws"}

\* allMagnitudes.map(m => m.length)
MagnitudeLengths(found) == [i \in 1..Len(found) |-> Len(found[i].magnitudes)]
\* Math.max(...magnitudeLengths), of one length at least
RECURSIVE MaxOf(_)
MaxOf(s) == IF Len(s) = 1 THEN s[1] ELSE Max(s[1], MaxOf(Tail(s)))
MaxLength(found) == MaxOf(MagnitudeLengths(found))
\* Math.max(1, Math.min(maxLength, Math.floor(imgHeight / 2)))
MaxFreqOfLongest(maxLength, imgHeight) == Max(1, Max(maxLength, imgHeight \div 2))
MaxFreqOf(maxLength, imgHeight) == Max(1, Min(maxLength, imgHeight \div 2))
\* Math.min(maxFreq, 10000)
SafeMaxFreq(maxLength, imgHeight) == Min(MaxFreqOf(maxLength, imgHeight), 10000)

\* combinedMagnitudes[i] += magnitudes[i] over the lines that have bin i
RECURSIVE SumBin(_, _, _)
SumBin(found, k, i) ==
    IF k > Len(found) THEN 0
    ELSE (IF i <= Len(found[k].magnitudes) THEN found[k].magnitudes[i] ELSE 0)
            + SumBin(found, k + 1, i)
CombineMagnitudes(found, safeMaxFreq) ==
    [i \in 1..safeMaxFreq |-> SumBin(found, 1, i)]

\* applyGaussianSmoothing(data, 2, 7): size 7, radius 3
Radius == 3
\* Math.exp(-(i * i) / (2 * sigma * sigma)) for sigma = 2, in thousandths
GaussianWeight(i) == <<1000, 882, 607, 325>>[Abs(i) + 1]
\* the sum the kernel is normalised by
KernelSum ==
    GaussianWeight(-3) + GaussianWeight(-2) + GaussianWeight(-1) + GaussianWeight(0)
        + GaussianWeight(1) + GaussianWeight(2) + GaussianWeight(3)
\* the contribution of tap j to result[i] (i, index count from 0)
TapClamped(d, i, j) ==
    d[Max(0, Min(Len(d) - 1, i + j)) + 1] * GaussianWeight(j)
\* if (index >= 0 && index < data.length) value += data[index] * kernel[j + radius]
Tap(d, i, j) ==
    IF i + j >= 0 /\ i + j < Len(d) THEN d[i + j + 1] * GaussianWeight(j) ELSE 0
\* the inner loop if it ended one tap early (j < radius)
RECURSIVE ConvolveShort(_, _, _)
ConvolveShort(d, i, j) ==
    IF j >= Radius THEN 0 ELSE Tap(d, i, j) + ConvolveShort(d, i, j + 1)
RECURSIVE Convolve(_, _, _)
Convolve(d, i, j) ==
    IF j > Radius THEN 0 ELSE Tap(d, i, j) + Convolve(d, i, j + 1)
ApplyGaussianSmoothing(d) ==
    [k \in 1..Len(d) |-> Convolve(d, k - 1, -Radius)]

StartIndex == 5

ReachesOrExceeds(v, m) == v >= m
\* smoothedMagnitudes[i] > maxMagnitude
Exceeds(v, m) == v > m

\* the loop over i = startIndex .. length-1 (i counts from 0)
RECURSIVE PeakScan(_, _, _, _)
PeakScan(s, i, maxMagnitude, peakFrequency) ==
    IF i >= Len(s) THEN peakFrequency
    ELSE IF Exceeds(s[i + 1], maxMagnitude)
         THEN PeakScan(s, i + 1, s[i + 1], i)
         ELSE PeakScan(s, i + 1, maxMagnitude, peakFrequency)

FindPeakFromStart(s) == PeakScan(s, StartIndex, 0, StartIndex)
\* let maxMagnitude = 0; let peakFrequency = 0; and the loop
FindPeak(s) == PeakScan(s, StartIndex, 0, 0)

\* the source images of SpecFFT: low images of any width (a 0 by 0 image
\* is left out, NoImage stands for null), a tall image one column wide, and
\* an image of one row with more columns than lines are selected
FftShapes ==
    {s \in (0..FftMaxW) \X (0..FftMaxH) :
        /\ s # <<0, 0>>
        /\ s[1] * s[2] <= FftLowPixels \/ (s[1] = 1 /\ s[2] = FftMaxH)}
        \cup {<<NumLines + 1, 1>>}

\* the image is loaded, its results are reset, performFFT has not run
InitFFT ==
    /\ \E s \in FftShapes : imageData = SourceImage(s[1], s[2], 0)
    /\ FFTIdle
    /\ dominantFrequency = Null
    /\ pixelSamples = <<>>
    /\ sampleFreq = Null
    /\ stride = <<1, 1>>
    /\ artStride = <<1, 1>>
    /\ artFreq = Null
    /\ generatedPixelArt = NoImage
    /\ colorHistogram = <<>>
    /\ transparentPixelArt = NoImage
    /\ artPc = "idle"
    /\ FillIdle
    /\ SpinnerIdle
    /\ ExtIdle

FFTFrame ==
    /\ UNCHANGED <<imageData, stride, artStride, artFreq>>
    /\ UNCHANGED <<artVars, fillVars, spinVars, extVars>>

\* performFFT up to the loop that selects the lines
BeginFFT ==
    /\ fftPc = "idle"
    /\ imageData # NoImage
    /\ processing' = TRUE
    /\ lines' = <<>>
    /\ fftPc' = "select"
    /\ UNCHANGED <<drawn, results, combinedMagnitudes, smoothedMagnitudes,
                   selectedLines, fftResults, combinedFFT, smoothedFFT>>
    /\ UNCHANGED <<dominantFrequency, pixelSamples, sampleFreq>>
    /\ FFTFrame

\* one iteration of the while loop, Math.random() giving position x
DrawLine ==
    /\ fftPc = "select"
    /\ MoreLinesWanted(lines, imageData.width)
    /\ \E x \in Draws(imageData.width, lines) :
          /\ drawn' = x
          /\ lines' = IF x \in Range(lines) THEN lines ELSE Append(lines, x)
    /\ UNCHANGED <<fftPc, processing, results, combinedMagnitudes,
                   smoothedMagnitudes, selectedLines, fftResults, combinedFFT,
                   smoothedFFT>>
    /\ UNCHANGED <<dominantFrequency, pixelSamples, sampleFreq>>
    /\ FFTFrame

\* how performFFT leaves when it publishes no spectrum
Leave(pc, flag) ==
    /\ fftPc' = pc
    /\ processing' = flag
    /\ UNCHANGED <<results, combinedMagnitudes>>

\* from setSelectedLines(lines) to the combined magnitudes: the transform
\* of every line, the two checks for missing results, the sum
TransformLines ==
    /\ fftPc = "select"
    /\ ~MoreLinesWanted(lines, imageData.width)
    /\ selectedLines' = lines
    /\ LET n == NumDerivatives(imageData.height)
       IN  IF Len(lines) = 0
           THEN \* allMagnitudes.length === 0
                Leave("failed", FALSE)
           ELSE IF n = 0
           THEN \E outcome \in FftOfNothing :
                   IF outcome = "throws"
                   THEN Leave("thrown", processing)
                   ELSE \* Math.max(...magnitudeLengths) === 0
                        Leave("failed", FALSE)
           ELSE \E mags \in [1..Len(lines) -> Spectra(n)] :
                   LET found == [i \in 1..Len(lines) |->
                                    [x |-> lines[i], magnitudes |-> mags[i]]]
                       safeMaxFreq == SafeMaxFreq(MaxLength(found), imageData.height)
                   IN  /\ results' = found
                       /\ combinedMagnitudes' = CombineMagnitudes(found, safeMaxFreq)
                       /\ fftPc' = "combined"
                       /\ UNCHANGED processing
    /\ UNCHANGED <<lines, drawn, smoothedMagnitudes, fftResults, combinedFFT,
                   smoothedFFT>>
    /\ UNCHANGED <<dominantFrequency, pixelSamples, sampleFreq>>
    /\ FFTFrame

\* const smoothedMagnitudes = applyGaussianSmoothing(combinedMagnitudes, 2, 7)
SmoothCombined ==
    /\ fftPc = "combined"
    /\ smoothedMagnitudes' = ApplyGaussianSmoothing(combinedMagnitudes)
    /\ fftPc' = "smoothed"
    /\ UNCHANGED <<lines, drawn, processing, results, combinedMagnitudes,
                   selectedLines, fftResults, combinedFFT, smoothedFFT>>
    /\ UNCHANGED <<dominantFrequency, pixelSamples, sampleFreq>>
    /\ FFTFrame

\* performFFT from the peak scan to its end
PerformFFT ==
    /\ fftPc = "smoothed"
    /\ LET peakFrequency == FindPeak(smoothedMagnitudes)
       IN  SetFrequencyAndSample(peakFrequency)
    /\ fftResults' = results
    /\ combinedFFT' = combinedMagnitudes
    /\ smoothedFFT' = smoothedMagnitudes
    /\ processing' = FALSE
    /\ fftPc' = "done"
    /\ UNCHANGED <<lines, drawn, results, combinedMagnitudes, smoothedMagnitudes,
                   selectedLines>>
    /\ FFTFrame

NextFFT ==
    \/ BeginFFT
    \/ DrawLine
    \/ TransformLines
    \/ SmoothCombined
    \/ PerformFFT

SpecFFT == InitFFT /\ [][NextFFT]_vars

\* the selection loop of performFFT runs on: while its condition holds, a
\* further iteration is made (no other step of performFFT can be taken
\* while the loop runs)
SpecFFTLive == InitFFT /\ [][NextFFT]_vars /\ WF_vars(DrawLine)

-----------------------------------------------------------------------------
(* SpecSpinner: the offset and stride controls of OffsetStrideSpinner and   *)
(* their handlers in ImageFFTAnalyzer, after performFFT on one source       *)
(* image.  The offset is kept in thousandths, the stride as a fraction.     *)
(* reprocessWithOffsetStride is returned by useImageAnalysis; its body is   *)
(* the grid sampling with a pitch and an offset fraction.                   *)

OffsetUnit == 1000
\* 0.05 in thousandths
OffsetStep == 50

\* the call number after the call recorded in history h
NextCall(h) == IF h = <<>> THEN 1 ELSE 1 - h[1]

\* Math.floor((g + 0.5 + offsetFraction) * pitch)
CellCenterWithOffset(g, spacing, off) ==
    FloorDiv((OffsetUnit * g + OffsetUnit \div 2 + off) * spacing[1],
             OffsetUnit * spacing[2])

\* the samples of the grid with pitch spacing and offset fraction off
SampleGrid(img, spacing, off) ==
    LET reconstructedWidth == Estimated(img.width, spacing)
        reconstructedHeight == Estimated(img.height, spacing)
        Center(c) == <<CellCenterWithOffset(c[1], spacing, off),
                       CellCenterWithOffset(c[2], spacing, off)>>
        Inside(c) == WithinBounds(Center(c)[1], Center(c)[2], img)
        kept == SelectSeq(GridCells(reconstructedWidth, reconstructedHeight), Inside)
    IN  [k \in 1..Len(kept) |->
            [x |-> Center(kept[k])[1],
             y |-> Center(kept[k])[2],
             color |-> ReadPixel(img, Center(kept[k])[1], Center(kept[k])[2])]]

\* reprocessWithOffsetStride(newOffset, newStride): samples the grid again,
\* the results of performFFT stay
ReprocessWithOffsetStride(newOffset, newStride) ==
    /\ reprocessed' = <<NextCall(reprocessed), newOffset, newStride>>
    /\ pixelSamples' = SampleGrid(imageData, newStride, newOffset)

\* if (isFFTComplete && imageData)
CanReprocess == isFFTComplete /\ imageData # NoImage

\* the arguments of reprocessWithOffsetStride in handleOffsetChange
OffsetArgumentsStale(newOffset) == <<offset, stride>>
OffsetArguments(newOffset) == <<newOffset, stride>>

\* handleOffsetChange(newOffset) of ImageFFTAnalyzer
HandleOffsetChange(newOffset) ==
    /\ handled' = <<NextCall(handled), "offset", newOffset>>
    /\ offset' = newOffset
    /\ IF CanReprocess
       THEN ReprocessWithOffsetStride(OffsetArguments(newOffset)[1],
                                      OffsetArguments(newOffset)[2])
       ELSE UNCHANGED <<reprocessed, pixelSamples>>
    /\ UNCHANGED <<stride, isFFTComplete>>
    /\ UNCHANGED <<imageData, dominantFrequency, sampleFreq, artStride, artFreq>>
    /\ UNCHANGED <<artVars, fillVars, fftVars, extVars>>

\* handleStrideChange(newStride) of ImageFFTAnalyzer
HandleStrideChange(newStride) ==
    /\ handled' = <<NextCall(handled), "stride", newStride>>
    /\ stride' = newStride
    /\ IF CanReprocess
       THEN ReprocessWithOffsetStride(offset, newStride)
       ELSE UNCHANGED <<reprocessed, pixelSamples>>
    /\ UNCHANGED <<offset, isFFTComplete>>
    /\ UNCHANGED <<imageData, dominantFrequency, sampleFreq, artStride, artFreq>>
    /\ UNCHANGED <<artVars, fillVars, fftVars, extVars>>

\* the controls are drawn once there is pixel art, with
\* disabled = processing || !isFFTComplete
SpinnerEnabled ==
    generatedPixelArt # NoImage /\ ~(processing \/ ~isFFTComplete)

\* parseFloat(e.target.value): <<TRUE, 0>> is NaN, <<FALSE, v>> the number v
\* (an offset in thousandths, a stride in tenths)
TypedOffsets ==
    {<<TRUE, 0>>} \cup
    {<<FALSE, v>> : v \in {-1, 0, 4, OffsetUnit \div 2, OffsetUnit - 4,
                           OffsetUnit, OffsetUnit + 1}}
TypedStrides ==
    {<<TRUE, 0>>} \cup {<<FALSE, v>> : v \in {0, SpinMinStride, SpinMaxStride}}

\* handleOffsetChange of OffsetStrideSpinner:
\* if (!isNaN(value) && value >= 0 && value <= 1) onOffsetChange(value)
SpinnerHandleOffsetChange(value) ==
    /\ SpinnerEnabled
    /\ IF ~value[1] /\ value[2] >= 0 /\ value[2] <= OffsetUnit
       THEN HandleOffsetChange(value[2])
       ELSE UNCHANGED vars

\* Math.min(1.0, Math.round((offset + 0.05) * 100) / 100)
IncrementedOffsetUncapped(o) == RoundDiv(o + OffsetStep, 10) * 10
IncrementedOffset(o) == Min(OffsetUnit, RoundDiv(o + OffsetStep, 10) * 10)
\* Math.max(0.0, Math.round((offset - 0.05) * 100) / 100)
DecrementedOffset(o) == Max(0, RoundDiv(o - OffsetStep, 10) * 10)

\* incrementOffset, its button disabled for offset >= 1
IncrementOffset ==
    /\ SpinnerEnabled
    /\ ~(offset >= OffsetUnit)
    /\ HandleOffsetChange(IncrementedOffset(offset))

\* decrementOffset, its button disabled for offset <= 0
DecrementOffset ==
    /\ SpinnerEnabled
    /\ ~(offset <= 0)
    /\ HandleOffsetChange(DecrementedOffset(offset))

\* handleStrideChange of OffsetStrideSpinner:
\* if (!isNaN(value) && value >= 0.1) onStrideChange(value)
SpinnerHandleStrideChange(value) ==
    /\ SpinnerEnabled
    /\ IF ~value[1] /\ value[2] >= 1
       THEN HandleStrideChange(Frac(value[2], 10))
       ELSE UNCHANGED vars

\* Math.round((stride + 0.1) * 10) / 10
IncrementedStride(st) == Frac(RoundDiv(10 * st[1] + st[2], st[2]), 10)
\* Math.max(0.1, Math.round((stride - 0.1) * 10) / 10)
DecrementedStride(st) == Frac(Max(1, RoundDiv(10 * st[1] - st[2], st[2])), 10)

\* incrementStride, up to the largest stride of the model
IncrementStride ==
    /\ SpinnerEnabled
    /\ 10 * stride[1] < SpinMaxStride * stride[2]
    /\ HandleStrideChange(IncrementedStride(stride))

\* decrementStride, its button disabled for stride <= 0.1, down to the
\* smallest stride of the model
DecrementStride ==
    /\ SpinnerEnabled
    /\ ~(10 * stride[1] <= stride[2])
    /\ 10 * stride[1] > SpinMinStride * stride[2]
    /\ HandleStrideChange(DecrementedStride(stride))

InitSpinner ==
    /\ imageData = SourceImage(SpinW, SpinH, 0)
    /\ dominantFrequency = Null
    /\ pixelSamples = <<>>
    /\ sampleFreq = Null
    /\ stride = <<1, 1>>
    /\ artStride = <<1, 1>>
    /\ artFreq = Null
    /\ generatedPixelArt = NoImage
    /\ colorHistogram = <<>>
    /\ transparentPixelArt = NoImage
    /\ artPc = "idle"
    /\ FillIdle
    /\ FFTIdle
    /\ SpinnerIdle
    /\ ExtIdle

\* performFFT runs once on the image and the stride effect once on its
\* result; of the effect of usePixelArtGeneration the first run is kept,
\* which makes the controls appear
NextSpinner ==
    \/ /\ dominantFrequency = Null
       /\ \E peakFrequency \in GridFrequencies : PublishFrequency(peakFrequency)
    \/ ~isFFTComplete /\ StrideEffect
    \/ generatedPixelArt = NoImage /\ PixelArtEffect
    \/ \E value \in TypedOffsets : SpinnerHandleOffsetChange(value)
    \/ IncrementOffset
    \/ DecrementOffset
    \/ \E value \in TypedStrides : SpinnerHandleStrideChange(value)
    \/ IncrementStride
    \/ DecrementStride

SpecSpinner == InitSpinner /\ [][NextSpinner]_vars

-----------------------------------------------------------------------------
(* SpecGemini: one call of GeminiService.generatePixelArt, one await at a  *)
(* time.  A response is what fetch settles with: fetch may reject, the     *)
(* status may be not OK, the body may fail to parse, or the body is an     *)
(* object whose candidates are a list; a candidate says whether it has     *)
(* content.parts and lists its parts, a part being "inlineData" or "text". *)

\* const maxRetries = 3
MaxRetries == 3

CandidateParts ==
    {<<>>, <<"text">>, <<"inlineData">>, <<"text", "inlineData">>}
NoContent == [content |-> FALSE, parts |-> <<>>]
Candidates ==
    {NoContent} \cup {[content |-> TRUE, parts |-> p] : p \in CandidateParts}
CandidateLists ==
    UNION {[1..n -> Candidates] : n \in 0..MaxCandidates}
FetchOutcomes ==
    {[kind |-> "rejected"], [kind |-> "notOk"], [kind |-> "badJson"]}
        \cup {[kind |-> "ok", candidates |-> c] : c \in CandidateLists}

\* the test of a candidate's parts with every for some
EveryInlineData(parts) == \A k \in 1..Len(parts) : parts[k] = "inlineData"
\* candidate.content.parts.some((part: any) => part.inlineData)
SomeInlineData(parts) == \E k \in 1..Len(parts) : parts[k] = "inlineData"

\* the test that breaks the retry loop
HasImage(candidates) ==
    /\ Len(candidates) > 0
    /\ candidates[1].content
    /\ SomeInlineData(candidates[1].parts)

\* the last part of candidates[0] of the wanted kind, as the loop over the
\* parts leaves it in the response
RECURSIVE LastPart(_, _, _)
LastPart(parts, kind, k) ==
    IF k = 0 THEN Null
    ELSE IF parts[k] = kind THEN k
    ELSE LastPart(parts, kind, k - 1)
\* "Process the final result"
ProcessResult(candidates) ==
    IF Len(candidates) > 0 /\ candidates[1].content
    THEN LET parts == candidates[1].parts
         IN  [imageData    |-> LastPart(parts, "inlineData", Len(parts)),
              textResponse |-> LastPart(parts, "text", Len(parts))]
    ELSE [imageData |-> Null, textResponse |-> Null]

GeminiFrame ==
    UNCHANGED <<artVars, fillVars, gridVars, fftVars, spinVars, batchVars,
                storeVars, uploadVars>>

InitGemini ==
    /\ apiKey \in BOOLEAN
    /\ gemPc = "called"
    /\ attempt = 0
    /\ result = Null
    /\ geminiResponse = Null
    /\ requests = 0
    /\ responses = 0
    /\ lastResponse = [kind |-> "none"]
    /\ BatchIdle
    /\ StorageIdle
    /\ UploadIdle
    /\ generatedPixelArt = NoImage
    /\ colorHistogram = <<>>
    /\ transparentPixelArt = NoImage
    /\ artPc = "idle"
    /\ FillIdle
    /\ GridIdle
    /\ FFTIdle
    /\ SpinnerIdle

\* attempt++ and fetch(url, ...) at the head of the loop body
SendRequest ==
    /\ attempt' = attempt + 1
    /\ requests' = requests + 1
    /\ gemPc' = "fetching"

\* generatePixelArt up to its first await of fetch
BuildRequest ==
    /\ gemPc = "called"
    /\ IF ~apiKey
       THEN /\ gemPc' = "thrown"
            /\ UNCHANGED <<attempt, requests>>
       ELSE IF attempt < MaxRetries
            THEN SendRequest
            ELSE /\ gemPc' = "returned"
                 /\ UNCHANGED <<attempt, requests>>
    /\ UNCHANGED <<apiKey, result, geminiResponse, responses, lastResponse>>
    /\ GeminiFrame

\* the fetch settles: from await fetch to the next await or to the end
ReceiveResponse(response) ==
    /\ gemPc = "fetching"
    /\ responses' = responses + 1
    /\ lastResponse' = response
    /\ IF response.kind \in {"rejected", "notOk", "badJson"}
       THEN /\ gemPc' = "thrown"
            /\ UNCHANGED <<result, geminiResponse>>
       ELSE /\ result' = response.candidates
            /\ IF HasImage(response.candidates) \/ ~(attempt < MaxRetries)
               THEN /\ gemPc' = "returned"
                    /\ geminiResponse' = ProcessResult(response.candidates)
               ELSE /\ gemPc' = "waiting"
                    /\ UNCHANGED geminiResponse
    /\ UNCHANGED <<apiKey, attempt, requests>>
    /\ GeminiFrame

\* the one-second timer fires and the loop goes round
RetryAfterDelay ==
    /\ gemPc = "waiting"
    /\ IF attempt < MaxRetries
       THEN SendRequest
       ELSE /\ gemPc' = "returned"
            /\ UNCHANGED <<attempt, requests>>
    /\ UNCHANGED <<apiKey, result, geminiResponse, responses, lastResponse>>
    /\ GeminiFrame

NextGemini ==
    \/ BuildRequest
    \/ \E response \in FetchOutcomes : ReceiveResponse(response)
    \/ RetryAfterDelay

SpecGemini == InitGemini /\ [][NextGemini]_vars

-----------------------------------------------------------------------------
(* SpecBatch: one call of GeminiService.generatePixelArtBatch.  A call of  *)
(* generatePixelArt is in flight from the moment it is pushed into batch   *)
(* until its promise settles: fulfilled with an image, fulfilled without   *)
(* one, or rejected.  The promises of a group settle in any order.         *)

Settlements == {"image", "noImage", "rejected"}

\* the size of the group an unbounded inner loop would push
BatchSizeUnlimited(limit, remaining) == remaining
\* const batchSize = Math.min(concurrencyLimit, count - i)
BatchSize(limit, remaining) == Min(limit, remaining)

\* result.status === 'fulfilled' && result.value.imageData
ImagesOf(group) == Cardinality({j \in 1..Len(group) : group[j] = "image"})
InFlight == Cardinality({j \in 1..Len(batch) : batch[j] = "pending"})

BatchFrame ==
    UNCHANGED <<artVars, fillVars, gridVars, fftVars, spinVars, gemVars,
                storeVars, uploadVars>>

InitBatch ==
    /\ count \in 0..MaxCount
    /\ concurrencyLimit \in 1..MaxLimit
    /\ batchPc = "called"
    /\ batchIndex = 0
    /\ batch = <<>>
    /\ batchImages = 0
    /\ started = 0
    /\ GeminiIdle
    /\ StorageIdle
    /\ UploadIdle
    /\ generatedPixelArt = NoImage
    /\ colorHistogram = <<>>
    /\ transparentPixelArt = NoImage
    /\ artPc = "idle"
    /\ FillIdle
    /\ GridIdle
    /\ FFTIdle
    /\ SpinnerIdle

\* the head of the outer loop with i = from: the inner loop pushes the calls
\* of a group and the function awaits Promise.allSettled, or the loop is over
LoopFrom(from) ==
    /\ batchIndex' = from
    /\ IF from < count
       THEN LET batchSize == BatchSize(concurrencyLimit, count - from)
            IN  /\ batch' = [j \in 1..batchSize |-> "pending"]
                /\ started' = started + batchSize
                /\ batchPc' = "awaiting"
       ELSE /\ batchPc' = "returned"
            /\ UNCHANGED <<batch, started>>

\* generatePixelArtBatch up to its first await inside the loop
StartBatch ==
    /\ batchPc = "called"
    /\ LoopFrom(0)
    /\ UNCHANGED <<count, concurrencyLimit, batchImages>>
    /\ BatchFrame

\* the promise of one call of the group settles
SettleCall(j, outcome) ==
    /\ batchPc = "awaiting"
    /\ j \in 1..Len(batch)
    /\ batch[j] = "pending"
    /\ batch' = [batch EXCEPT ![j] = outcome]
    /\ UNCHANGED <<count, concurrencyLimit, batchPc, batchIndex, batchImages,
                   started>>
    /\ BatchFrame

\* Promise.allSettled resolves: the results are collected, and the function
\* waits 500 ms if a further group follows
CollectGroup ==
    /\ batchPc = "awaiting"
    /\ InFlight = 0
    /\ batchImages' = batchImages + ImagesOf(batch)
    /\ IF batchIndex + concurrencyLimit < count
       THEN /\ batchPc' = "delaying"
            /\ UNCHANGED <<batchIndex, batch, started>>
       ELSE LoopFrom(batchIndex + concurrencyLimit)
    /\ UNCHANGED <<count, concurrencyLimit>>
    /\ BatchFrame

\* the delay between two groups is over: i += concurrencyLimit
NextGroup ==
    /\ batchPc = "delaying"
    /\ LoopFrom(batchIndex + concurrencyLimit)
    /\ UNCHANGED <<count, concurrencyLimit, batchImages>>
    /\ BatchFrame

NextBatch ==
    \/ StartBatch
    \/ \E j \in 1..MaxLimit, outcome \in Settlements : SettleCall(j, outcome)
    \/ CollectGroup
    \/ NextGroup

SpecBatch == InitBatch /\ [][NextBatch]_vars

-----------------------------------------------------------------------------
(* SpecStorage: calls of PixelArtStorage.savePixelArt, deletePixelArt and  *)
(* clearAll on a list that earlier saves have left.  An item is the number *)
(* of the savePixelArt call that made it (its id and timestamp are the     *)
(* time of that call); whether localStorage.setItem throws for lack of     *)
(* room is the choice of the environment.                                  *)

\* .slice(0, 50)
MaxStored == 50
\* existing.slice(0, 20)
TrimmedKeep == 20

\* the list k saves leave in an empty store, the newest first
SavedList(k) == [j \in 1..k |-> k + 1 - j]
\* the sizes of the list a run starts with
StartSizes == {0, 1, TrimmedKeep + 1, MaxStored - 1, MaxStored}

\* array.slice(0, n)
Slice(list, n) == SubSeq(list, 1, Min(n, Len(list)))
\* [savedArt, ...existing] kept whole
UpdatedUncut(savedArt, existing) == <<savedArt>> \o existing
\* const updated = [savedArt, ...existing].slice(0, 50)
Updated(savedArt, existing) == Slice(<<savedArt>> \o existing, MaxStored)
\* const trimmed = [savedArt, ...existing.slice(0, 20)]
Trimmed(savedArt, existing) == <<savedArt>> \o Slice(existing, TrimmedKeep)
\* existing.filter(art => art.id !== id)
Filtered(existing, id) ==
    LET Keep(art) == art # id IN SelectSeq(existing, Keep)

\* whether setItem throws at the first and at the second attempt
QuotaOutcomes == {<<FALSE, FALSE>>, <<TRUE, FALSE>>, <<TRUE, TRUE>>}

StorageFrame ==
    UNCHANGED <<artVars, fillVars, gridVars, fftVars, spinVars, gemVars,
                batchVars, uploadVars>>

InitStorage ==
    /\ \E k \in StartSizes : stored = SavedList(k) /\ saveCalls = k
    /\ storeOps = 0
    /\ lastCall = "none"
    /\ GeminiIdle
    /\ BatchIdle
    /\ UploadIdle
    /\ generatedPixelArt = NoImage
    /\ colorHistogram = <<>>
    /\ transparentPixelArt = NoImage
    /\ artPc = "idle"
    /\ FillIdle
    /\ GridIdle
    /\ FFTIdle
    /\ SpinnerIdle

SavePixelArt(throws) ==
    /\ storeOps < MaxStoreOps
    /\ storeOps' = storeOps + 1
    /\ saveCalls' = saveCalls + 1
    /\ LET savedArt == saveCalls + 1
           existing == stored
       IN  IF ~throws[1]
           THEN /\ stored' = Updated(savedArt, existing)
                /\ lastCall' = "saved"
           ELSE IF Len(existing) > 0 /\ ~throws[2]
           THEN /\ stored' = Trimmed(savedArt, existing)
                /\ lastCall' = "saved"
           ELSE /\ stored' = stored
                /\ lastCall' = "thrown"
    /\ StorageFrame

\* the ids a call of deletePixelArt is made with: the newest, the oldest and
\* the middle item of the list, and an id that is not in it
DeleteIds ==
    {0} \cup (IF stored = <<>> THEN {}
              ELSE {stored[1], stored[(Len(stored) + 1) \div 2],
                    stored[Len(stored)]})

DeletePixelArt(id) ==
    /\ storeOps < MaxStoreOps
    /\ storeOps' = storeOps + 1
    /\ stored' = Filtered(stored, id)
    /\ lastCall' = "deleted"
    /\ UNCHANGED saveCalls
    /\ StorageFrame

\* localStorage.removeItem(STORAGE_KEY): getAllSavedPixelArt then returns []
ClearAll ==
    /\ storeOps < MaxStoreOps
    /\ storeOps' = storeOps + 1
    /\ stored' = <<>>
    /\ lastCall' = "cleared"
    /\ UNCHANGED saveCalls
    /\ StorageFrame

NextStorage ==
    \/ \E throws \in QuotaOutcomes : SavePixelArt(throws)
    \/ \E id \in DeleteIds : DeletePixelArt(id)
    \/ ClearAll

SpecStorage == InitStorage /\ [][NextStorage]_vars

-----------------------------------------------------------------------------
(* SpecUpload: images arriving by file upload and from the generator.      *)
(* The variables hold the state with every queued update applied.  An      *)
(* onload handler is one step; React renders in a later task, so further   *)
(* handlers may run before the render.  Render is a render with its commit *)
(* and its effects: an effect runs if one of its dependencies differs from *)
(* the render before, and sees the values of this render.  performFFT is   *)
(* one step here: it picks every column, from left to right; the lines of  *)
(* image 0 have a spectrum with one peak, at bin StartIndex, and the lines *)
(* of image 1 a spectrum that is all zero.                                 *)

UploadImages == {SourceImage(UploadW, UploadH, k) : k \in 0..1}
UploadImage(k) == SourceImage(UploadW, UploadH, k)

\* the columns as the selection loop picks them when imgWidth <= 30
AllColumns(imgWidth) == [i \in 1..imgWidth |-> i - 1]
PeakHalf(n, v) ==
    [k \in 1..(n \div 2 + 1) |-> IF k = StartIndex + 1 THEN v ELSE 0]
\* the magnitudes of a line of image img
UploadSpectrum(img) ==
    LET n == NumDerivatives(img.height)
    IN  IF img = SourceImage(UploadW, UploadH, 0)
        THEN <<>> \o Mirror(PeakHalf(n, 1), n)
        ELSE <<>> \o Mirror(PeakHalf(n, 0), n)

\* what performFFT publishes for image img, the lines picked in order
\* picked and their spectra being mags
Analysis(img, picked, mags) ==
    LET found == [i \in 1..Len(picked) |->
                     [x |-> picked[i], magnitudes |-> mags[i]]]
        safeMaxFreq == SafeMaxFreq(MaxLength(found), img.height)
        combined == CombineMagnitudes(found, safeMaxFreq)
        smoothed == ApplyGaussianSmoothing(combined)
    IN  [selectedLines |-> <<>> \o picked,
         fftResults |-> <<>> \o found,
         combinedFFT |-> <<>> \o combined,
         smoothedFFT |-> <<>> \o smoothed,
         peakFrequency |-> FindPeak(smoothed)]

\* performFFT(img), its state updates queued
RunPerformFFT(img) ==
    /\ \E m \in {UploadSpectrum(img)} :
       \E a \in {Analysis(img, AllColumns(img.width), [i \in 1..img.width |-> m])} :
           /\ selectedLines' = a.selectedLines
           /\ fftResults' = a.fftResults
           /\ combinedFFT' = a.combinedFFT
           /\ smoothedFFT' = a.smoothedFFT
           /\ dominantFrequency' = a.peakFrequency
           /\ IF a.peakFrequency > 0
              THEN /\ pixelSamples' = GeneratePixelSamples(a.peakFrequency, img)
                   /\ sampleFreq' = a.peakFrequency
              ELSE UNCHANGED <<pixelSamples, sampleFreq>>
    /\ analysed' = img

\* "Reset results when new image is loaded"
ResetResults ==
    /\ fftResults' = <<>>
    /\ selectedLines' = <<>>
    /\ combinedFFT' = <<>>
    /\ smoothedFFT' = <<>>
    /\ pixelSamples' = <<>>
    /\ dominantFrequency' = Null

UploadFrame ==
    /\ UNCHANGED <<artVars, fillVars, gemVars, batchVars, storeVars>>
    /\ UNCHANGED <<processing, fftPc, lines, drawn, results, combinedMagnitudes,
                   smoothedMagnitudes>>
    /\ UNCHANGED <<artStride, artFreq, offset, reprocessed, handled>>

\* the values a render shows
Shown ==
    [imageData |-> imageData, pendingCallback |-> pendingCallback,
     dominantFrequency |-> dominantFrequency]

InitUpload ==
    /\ UploadIdle
    /\ GeminiIdle
    /\ BatchIdle
    /\ StorageIdle
    /\ generatedPixelArt = NoImage
    /\ colorHistogram = <<>>
    /\ transparentPixelArt = NoImage
    /\ artPc = "idle"
    /\ FillIdle
    /\ GridIdle
    /\ FFTIdle
    /\ SpinnerIdle

\* handleImageUpload(e) with a file chosen: the reader and the image load
StartFileUpload(k) ==
    /\ loads < MaxLoads
    /\ loads' = loads + 1
    /\ loading' = loading \cup {[kind |-> "file", image |-> k, id |-> loads + 1]}
    /\ UNCHANGED <<pendingCallback, rendered, passed, ran, analysed>>
    /\ UNCHANGED <<gridVars, fftVars, spinVars>>
    /\ UploadFrame

\* handleGeminiImageGenerated: setIsFFTComplete(false) and img.src = ...
HandleGeminiImageGenerated(k) ==
    /\ loads < MaxLoads
    /\ loads' = loads + 1
    /\ isFFTComplete' = FALSE
    /\ loading' = loading \cup {[kind |-> "gemini", image |-> k, id |-> loads + 1]}
    /\ UNCHANGED <<pendingCallback, rendered, passed, ran, analysed>>
    /\ UNCHANGED <<gridVars, fftVars>>
    /\ UploadFrame

\* img.onload of handleImageUpload(e): setImageData and the resets
FileImageLoaded(load) ==
    /\ load \in loading
    /\ load.kind = "file"
    /\ loading' = loading \ {load}
    /\ imageData' = UploadImage(load.image)
    /\ ResetResults
    /\ UNCHANGED <<pendingCallback, rendered, loads, passed, ran, analysed>>
    /\ UNCHANGED <<sampleFreq, stride, isFFTComplete>>
    /\ UploadFrame

\* img.onload of handleGeminiImageGenerated:
\* handleImageUpload(null, img, () => { performFFT(imgData) })
GeminiImageLoaded(load) ==
    /\ load \in loading
    /\ load.kind = "gemini"
    /\ loading' = loading \ {load}
    /\ ResetResults
    /\ imageData' = UploadImage(load.image)
    /\ pendingCallback' = [id |-> load.id, image |-> load.image]
    /\ passed' = passed \cup {load.id}
    /\ UNCHANGED <<rendered, loads, ran, analysed>>
    /\ UNCHANGED <<sampleFreq, stride, isFFTComplete>>
    /\ UploadFrame

\* if (imageData && pendingCallback) of the effect with dependencies
\* [imageData, pendingCallback]
CallbackEffectRuns ==
    /\ \/ rendered.imageData # imageData
       \/ rendered.pendingCallback # pendingCallback
    /\ imageData # NoImage
    /\ pendingCallback # NoCallback
\* the condition of the effect with dependencies
\* [dominantFrequency, imageHeight]
StrideEffectRuns ==
    /\ \/ rendered.dominantFrequency # dominantFrequency
       \/ rendered.imageData.height # imageData.height
    /\ dominantFrequency > 0
    /\ imageData.height > 0

\* a render of the queued updates, its commit and its effects
Render ==
    /\ Shown # rendered
    /\ rendered' = Shown
    /\ IF CallbackEffectRuns
       THEN /\ RunPerformFFT(UploadImage(pendingCallback.image))
            /\ pendingCallback' = NoCallback
            /\ ran' = Append(ran, [id |-> pendingCallback.id,
                                   image |-> pendingCallback.image,
                                   at |-> imageData])
       ELSE /\ UNCHANGED <<pendingCallback, ran, analysed>>
            /\ UNCHANGED <<selectedLines, fftResults, combinedFFT, smoothedFFT,
                           dominantFrequency, pixelSamples, sampleFreq>>
    /\ IF StrideEffectRuns
       THEN /\ stride' = Frac(imageData.height, dominantFrequency)
            /\ isFFTComplete' = TRUE
       ELSE UNCHANGED <<stride, isFFTComplete>>
    /\ UNCHANGED <<imageData, loading, loads, passed>>
    /\ UploadFrame

\* onClick={() => imageData && performFFT(imageData)} of the Analyze button,
\* imageData being the value of the render the button belongs to
ClickAnalyze ==
    /\ rendered.imageData # NoImage
    /\ RunPerformFFT(rendered.imageData)
    /\ UNCHANGED <<pendingCallback, loading, rendered, loads, passed, ran>>
    /\ UNCHANGED <<imageData, stride, isFFTComplete>>
    /\ UploadFrame

NextUpload ==
    \/ \E k \in 0..1 : StartFileUpload(k)
    \/ \E k \in 0..1 : HandleGeminiImageGenerated(k)
    \/ \E load \in loading : FileImageLoaded(load)
    \/ \E load \in loading : GeminiImageLoaded(load)
    \/ Render
    \/ ClickAnalyze

SpecUpload == InitUpload /\ [][NextUpload]_vars

-----------------------------------------------------------------------------
(* Properties of the histogram and the matte (SpecArt) *)

ArtIn == generatedPixelArt
ArtPixels == 1..(ArtIn.width * ArtIn.height)
HistogramDone == artPc \in {"seed", "done"}
MatteDone == artPc = "done" /\ colorHistogram # <<>>

IsBorder(i, width, height) ==
    \/ PixelX(i, width) = 0 \/ PixelX(i, width) = width - 1
    \/ PixelY(i, width) = 0 \/ PixelY(i, width) = height - 1
Adjacent4(i, j, width) ==
    Abs(PixelX(i, width) - PixelX(j, width))
        + Abs(PixelY(i, width) - PixelY(j, width)) = 1
MatchSet == {i \in ArtPixels : Abs(calledWith[i][1] - targetColor[1]) <= 5
                               /\ Abs(calledWith[i][2] - targetColor[2]) <= 5
                               /\ Abs(calledWith[i][3] - targetColor[3]) <= 5}
RECURSIVE Grow(_)
Grow(S) ==
    LET N == S \cup {j \in MatchSet : \E i \in S : Adjacent4(i, j, ArtIn.width)}
    IN  IF N = S THEN S ELSE Grow(N)
\* the matching pixels a path of 4-connected matching pixels joins to a
\* matching border pixel
BorderClosure ==
    Grow({i \in MatchSet : IsBorder(i, ArtIn.width, ArtIn.height)})
\* the pixels whose alpha the fill forced to 0
ForcedToZero ==
    {i \in ArtPixels : transparentPixelArt.data[i][4] = 0 /\ calledWith[i][4] # 0}
DequeuedSet == {PixelIndex(dequeued[k][1], dequeued[k][2], ArtIn.width) :
                    k \in 1..Len(dequeued)}

\* C1: when createTransparentVersion has finished, the pixels whose alpha
\* was forced to 0 are exactly the pixels that match the target colour within
\* tolerance 5 per R/G/B channel and that a path of 4-connected matching
\* pixels joins to a matching border pixel; every other pixel is not removed.
C1_MatteIsBorderClosure ==
    MatteDone =>
        /\ ForcedToZero = BorderClosure
        /\ DequeuedSet = BorderClosure
        /\ \A i \in BorderClosure : transparentPixelArt.data[i][4] = 0
\* a finished fill that removed something and left a matching interior pixel
C1_Witness ==
    /\ MatteDone
    /\ ForcedToZero # {}
    /\ \E i \in MatchSet :
          /\ ~IsBorder(i, ArtIn.width, ArtIn.height)
          /\ transparentPixelArt.data[i][4] # 0

\* C2: createTransparentVersion works on a copy: the input buffer is as it
\* was at the call, every output pixel has the R, G and B of the input, and
\* the output alpha differs from the input alpha only at dequeued pixels.
C2_MatteFrame ==
    MatteDone =>
        /\ generatedPixelArt.data = calledWith
        /\ \A i \in ArtPixels :
              /\ transparentPixelArt.data[i][1] = calledWith[i][1]
              /\ transparentPixelArt.data[i][2] = calledWith[i][2]
              /\ transparentPixelArt.data[i][3] = calledWith[i][3]
              /\ (transparentPixelArt.data[i][4] # calledWith[i][4]
                    => i \in DequeuedSet)
\* a finished fill that changed the alpha of one pixel and kept a
\* non-opaque alpha of another
C2_Witness ==
    /\ MatteDone
    /\ \E i \in ArtPixels : transparentPixelArt.data[i][4] # calledWith[i][4]
    /\ \E i \in ArtPixels : transparentPixelArt.data[i] = cD

RECURSIVE SumCounts(_)
SumCounts(h) == IF h = <<>> THEN 0 ELSE Head(h).count + SumCounts(Tail(h))
Opaqueish == {i \in ArtPixels : ArtIn.data[i][4] # 0}
RGB(p) == <<p[1], p[2], p[3]>>
\* the first non-transparent pixel, in row-major order, with the RGB of p
FirstSeen(p) ==
    CHOOSE i \in Opaqueish :
        /\ RGB(ArtIn.data[i]) = RGB(p)
        /\ \A j \in Opaqueish : RGB(ArtIn.data[j]) = RGB(p) => i <= j

\* C3: the counts of the histogram entries add up to the number of pixels
\* whose alpha is not 0.
C3_CountsSum ==
    HistogramDone => SumCounts(colorHistogram) = Cardinality(Opaqueish)
\* a histogram of an image with a transparent and a non-transparent pixel
C3_Witness ==
    /\ HistogramDone
    /\ colorHistogram # <<>>
    /\ \E i \in ArtPixels : ArtIn.data[i][4] = 0

\* C4: the histogram has exactly one entry per distinct (R,G,B) among the
\* non-transparent pixels (alpha is not part of the key), and an entry's rgba
\* is the RGBA of the first such pixel in row-major order.
C4_OneEntryPerRGB ==
    HistogramDone =>
        /\ {RGB(colorHistogram[k].rgba) : k \in 1..Len(colorHistogram)}
              = {RGB(ArtIn.data[i]) : i \in Opaqueish}
        /\ \A k, m \in 1..Len(colorHistogram) :
              RGB(colorHistogram[k].rgba) = RGB(colorHistogram[m].rgba) => k = m
        /\ \A k \in 1..Len(colorHistogram) :
              colorHistogram[k].rgba = ArtIn.data[FirstSeen(colorHistogram[k].rgba)]
\* a histogram of an image with two pixels that differ only in alpha
C4_Witness ==
    /\ HistogramDone
    /\ \E i, j \in Opaqueish :
          /\ i < j
          /\ ArtIn.data[i] = cD
          /\ ArtIn.data[j] = cA

\* C5: the histogram is ordered by non-increasing count, entries of equal
\* count in the order their colours were first met; so entry 0 is, among the
\* colours of maximal count, the one first met.
C5_SortedStable ==
    HistogramDone =>
        \A k, m \in 1..Len(colorHistogram) :
            k < m =>
                /\ colorHistogram[k].count >= colorHistogram[m].count
                /\ (colorHistogram[k].count = colorHistogram[m].count
                      => FirstSeen(colorHistogram[k].rgba)
                            < FirstSeen(colorHistogram[m].rgba))
\* a histogram whose two leading entries have the same count
C5_Witness ==
    /\ HistogramDone
    /\ Len(colorHistogram) >= 3
    /\ colorHistogram[1].count = colorHistogram[2].count
    /\ colorHistogram[2].count > colorHistogram[3].count

-----------------------------------------------------------------------------
(* Properties of grid sampling and reconstruction (SpecGrid) *)

SrcW == imageData.width
SrcH == imageData.height
Sampled == sampleFreq > 0
\* round(width / pitch) and round(height / pitch) for pitch = height / f
ReconstructedWidth == (2 * SrcW * sampleFreq + SrcH) \div (2 * SrcH)
ReconstructedHeight == (2 * SrcH * sampleFreq + SrcH) \div (2 * SrcH)
\* floor((g + 0.5) * pitch)
SamplePoint(g) == ((2 * g + 1) * SrcH) \div (2 * sampleFreq)
AllCells == (0..(ReconstructedWidth - 1)) \X (0..(ReconstructedHeight - 1))
InsideCells ==
    {c \in AllCells : SamplePoint(c[1]) < SrcW /\ SamplePoint(c[2]) < SrcH}
RowMajorBefore(c, e) == c[2] < e[2] \/ (c[2] = e[2] /\ c[1] < e[1])
\* the position of cell c among the cells whose sample point is inside
Rank(c) == 1 + Cardinality({e \in InsideCells : RowMajorBefore(e, c)})
SourceAt(x, y) == imageData.data[y * SrcW + x + 1]
\* the reconstruction was drawn from the current samples with their pitch
ArtFromSamples ==
    /\ generatedPixelArt # NoImage
    /\ Sampled
    /\ artFreq = sampleFreq
    /\ artStride[1] * sampleFreq = artStride[2] * SrcH

\* C6: every grid cell (gx, gy) of the reconstruction whose sample point
\* lies inside the source image has the colour of the source pixel at
\* (floor((gx+0.5)*pitch), floor((gy+0.5)*pitch)), also when other cells
\* were left out of the sample list.
C6_CellsShowTheirSample ==
    ArtFromSamples =>
        /\ generatedPixelArt.width = ReconstructedWidth
        /\ generatedPixelArt.height = ReconstructedHeight
        /\ \A c \in InsideCells :
              generatedPixelArt.data[c[2] * ReconstructedWidth + c[1] + 1]
                = SourceAt(SamplePoint(c[1]), SamplePoint(c[2]))

\* C7: generatePixelSamples with frequency f > 0 uses pitch = height/f and a
\* grid of round(width/pitch) by round(height/pitch) cells, visits the cells
\* in row-major order, and the sample it emits for cell (gx, gy) has
\* x = floor((gx+0.5)*pitch), y = floor((gy+0.5)*pitch) and the RGBA of the
\* source pixel (x, y).
C7_SamplesRowMajor ==
    Sampled =>
        \A c \in InsideCells :
            /\ Rank(c) <= Len(pixelSamples)
            /\ pixelSamples[Rank(c)] =
                  [x |-> SamplePoint(c[1]),
                   y |-> SamplePoint(c[2]),
                   color |-> SourceAt(SamplePoint(c[1]), SamplePoint(c[2]))]
\* samples of a grid of several rows and columns whose pitch is no integer
C7_Witness ==
    /\ Sampled
    /\ SrcH % sampleFreq # 0
    /\ ReconstructedWidth >= 2
    /\ ReconstructedHeight >= 2
    /\ Len(pixelSamples) >= 4

\* C8: every sample lies inside the source image, a grid cell is left out of
\* the sample list exactly when its sample point falls outside the image,
\* and the list has at most reconstructedWidth*reconstructedHeight samples.
C8_SamplesInside ==
    Sampled =>
        /\ \A k \in 1..Len(pixelSamples) :
              /\ 0 <= pixelSamples[k].x /\ pixelSamples[k].x < SrcW
              /\ 0 <= pixelSamples[k].y /\ pixelSamples[k].y < SrcH
        /\ Len(pixelSamples) = Cardinality(InsideCells)
        /\ Len(pixelSamples) <= ReconstructedWidth * ReconstructedHeight
\* a sample list from which a grid cell was left out
C8_Witness ==
    /\ Sampled
    /\ Len(pixelSamples) > 0
    /\ InsideCells # AllCells

\* C9: sampling with pitch 1 (frequency = height) and reconstructing with
\* stride 1 gives an image of the source's width and height whose every
\* pixel is the source pixel at the same position.
C9_IdentityAtPitchOne ==
    (/\ generatedPixelArt # NoImage
     /\ artFreq = SrcH
     /\ artStride = <<1, 1>>)
        => generatedPixelArt = imageData
\* an identity reconstruction of an image with opaque, half-transparent and
\* transparent pixels
C9_Witness ==
    /\ generatedPixelArt # NoImage
    /\ artFreq = SrcH
    /\ artStride = <<1, 1>>
    /\ SrcW >= 2
    /\ SrcH >= 2
    /\ \E i, j, k \in 1..(SrcW * SrcH) :
          /\ imageData.data[i][4] = 255
          /\ imageData.data[j][4] = 128
          /\ imageData.data[k][4] = 0

-----------------------------------------------------------------------------
(* Properties of the peak detection (SpecFFT) *)

FFTDone == fftPc = "done"
\* the indices 5 .. length-1 of the smoothed spectrum (counted from 0)
ScannedBins == {i \in 5..(Len(smoothedFFT) - 1) : TRUE}
Bin(i) == smoothedFFT[i + 1]
\* the smallest index, among the scanned ones, that holds their maximum
FirstMaximum ==
    CHOOSE i \in ScannedBins :
        /\ \A j \in ScannedBins : Bin(j) <= Bin(i)
        /\ \A j \in ScannedBins : Bin(j) = Bin(i) => i <= j

\* C10 as stated: the dominant frequency is the index of the maximum of the
\* smoothed spectrum over the indices 5 .. length-1, the smallest such index
\* when several hold the maximum.
C10_PeakIsFirstMaximum ==
    (FFTDone /\ ScannedBins # {}) => dominantFrequency = FirstMaximum

\* C10 as amended: when some bin at an index in 5 .. length-1 is positive,
\* the dominant frequency is the smallest index, among 5 .. length-1, that
\* holds the maximum over these indices.
C10_PeakIsFirstPositiveMaximum ==
    (FFTDone /\ \E i \in ScannedBins : Bin(i) > 0)
        => dominantFrequency = FirstMaximum
\* a finished scan of a spectrum whose positive maximum is held twice, and
\* exceeded by a bin below index 5
C10_Witness ==
    /\ FFTDone
    /\ \E i, j \in ScannedBins :
          /\ i < j
          /\ Bin(i) = Bin(j)
          /\ Bin(i) > 0
          /\ \A k \in ScannedBins : Bin(k) <= Bin(i)
          /\ \E k \in 0..4 : Bin(k) > Bin(i)

\* C11: the dominant frequency performFFT publishes is 0 or an index i with
\* 5 <= i < length of the scanned spectrum; it is 0 exactly when the spectrum
\* has no index >= 5 or every value at an index >= 5 is <= 0; and 0 is
\* published as a normal result: together with the FFT results and both
\* spectra, the processing flag cleared, performFFT at its end.
C11_ZeroOrScannedIndex ==
    /\ FFTDone =>
          /\ \/ dominantFrequency = 0
             \/ (5 <= dominantFrequency /\ dominantFrequency < Len(smoothedFFT))
          /\ dominantFrequency = 0
                <=> (ScannedBins = {} \/ \A i \in ScannedBins : Bin(i) <= 0)
    /\ dominantFrequency = 0 =>
          /\ fftPc = "done"
          /\ processing = FALSE
          /\ Len(fftResults) = Len(selectedLines)
          /\ Len(fftResults) >= 1
          /\ Len(combinedFFT) >= 1
          /\ smoothedFFT = smoothedMagnitudes
\* frequency 0 published for a spectrum that has bins from index 5 on, all
\* of them 0, and a positive bin below index 5
C11_Witness ==
    /\ FFTDone
    /\ dominantFrequency = 0
    /\ ScannedBins # {}
    /\ \E k \in 0..4 : Bin(k) > 0

-----------------------------------------------------------------------------
(* Properties of the stages behind a frequency of 0 (SpecGrid) *)

\* C12: when performFFT finds dominant frequency 0 no grid-dependent stage
\* runs: no step that ends with dominant frequency 0 (the publishing of 0,
\* or any step taken while it is 0) builds pixel samples, derives a stride,
\* or computes a reconstruction, a histogram or a matte.
C12_NoGridStageAtZero ==
    [][dominantFrequency' = 0 =>
          /\ pixelSamples' = pixelSamples
          /\ sampleFreq' = sampleFreq
          /\ stride' = stride
          /\ artVars' = artVars
          /\ artStride' = artStride
          /\ artFreq' = artFreq]_vars
\* frequency 0 published over the samples of an earlier run, before any
\* reconstruction was made: only the frequency holds the effect back
C12_Witness ==
    /\ dominantFrequency = 0
    /\ imageData # NoImage
    /\ Len(pixelSamples) > 0
    /\ generatedPixelArt = NoImage

-----------------------------------------------------------------------------
(* Properties of the stages of performFFT (SpecFFT) *)

\* the longest magnitude array among the published FFT results
LongestPublished ==
    CHOOSE n \in {Len(fftResults[k].magnitudes) : k \in 1..Len(fftResults)} :
        \A k \in 1..Len(fftResults) : Len(fftResults[k].magnitudes) <= n

Selected == fftPc \notin {"idle", "select"}

\* C14: the selected columns are pairwise distinct, each one in [0, width),
\* and there are exactly min(30, width) of them.
C14_SelectedColumns ==
    /\ \A i, j \in 1..Len(lines) : lines[i] = lines[j] => i = j
    /\ \A i \in 1..Len(lines) : 0 <= lines[i] /\ lines[i] < imageData.width
    /\ Selected =>
          /\ selectedLines = lines
          /\ Len(selectedLines) = Min(30, imageData.width)
\* the selection of an image wider than 30 columns is over
C14_Witness ==
    /\ Selected
    /\ imageData.width > 30
    /\ Len(selectedLines) = 30

\* the selection loop of performFFT is running
Selecting == fftPc = "select" /\ MoreLinesWanted(lines, imageData.width)

\* C15: the column selection terminates for every width and every random
\* sequence: a selection loop that runs comes to its end.
\* (SpecFFTLive: the loop goes on iterating while its condition holds.)
C15_SelectionTerminates == Selecting ~> ~Selecting

\* no result of performFFT is published
NothingPublished ==
    /\ fftResults = <<>>
    /\ combinedFFT = <<>>
    /\ smoothedFFT = <<>>
    /\ dominantFrequency = Null

\* C16: when every sampled line yields an empty magnitude array (height
\* below 2) performFFT ends in failure: it publishes no combined spectrum,
\* no smoothed spectrum, no FFT results and no dominant frequency, and the
\* processing flag is false when it is over.
C16_InsufficientSignalFails ==
    (Selected /\ imageData.height < 2 /\ Len(selectedLines) >= 1) =>
        /\ fftPc = "failed"
        /\ processing = FALSE
        /\ NothingPublished

Smoothed == fftPc \in {"smoothed", "done"}
\* the combined magnitudes are a constant-valued array
ConstantInput ==
    \A k \in 1..Len(combinedMagnitudes) :
        combinedMagnitudes[k] = combinedMagnitudes[1]
\* the weight of tap j of result[i] when it falls inside an array of length
\* len, and the weight of all the taps of result[i] that do (i from 0)
WeightInside(len, i, j) ==
    IF i + j >= 0 /\ i + j < len THEN GaussianWeight(j) ELSE 0
InsideWeight(len, i) ==
    WeightInside(len, i, -3) + WeightInside(len, i, -2) + WeightInside(len, i, -1)
        + WeightInside(len, i, 0)
        + WeightInside(len, i, 1) + WeightInside(len, i, 2) + WeightInside(len, i, 3)
\* result[i] has all its taps inside an array of length len
AwayFromEnds(len, i) == i - Radius >= 0 /\ i + Radius < len

\* C18 as stated: smoothing a constant array gives an array of the same
\* length in which every element, including those within 3 positions of an
\* end, is the constant (smoothed values are in units of 1 / KernelSum).
C18_ConstantStaysConstant ==
    (Smoothed /\ ConstantInput) =>
        /\ Len(smoothedMagnitudes) = Len(combinedMagnitudes)
        /\ \A k \in 1..Len(smoothedMagnitudes) :
              smoothedMagnitudes[k] = combinedMagnitudes[k] * KernelSum

\* C18, amended: smoothing a constant array gives an array of the same
\* length; element i is the constant times the weight of the taps that fall
\* inside the array: the constant itself at least 3 positions away from both
\* ends, and less than a positive constant within 3 positions of an end.
C18_ConstantKeptAwayFromEnds ==
    (Smoothed /\ ConstantInput) =>
        /\ Len(smoothedMagnitudes) = Len(combinedMagnitudes)
        /\ \A i \in 0..(Len(smoothedMagnitudes) - 1) :
              LET c == combinedMagnitudes[1]
                  len == Len(combinedMagnitudes)
              IN  /\ smoothedMagnitudes[i + 1] = c * InsideWeight(len, i)
                  /\ AwayFromEnds(len, i) =>
                        smoothedMagnitudes[i + 1] = c * KernelSum
                  /\ (~AwayFromEnds(len, i) /\ c > 0) =>
                        smoothedMagnitudes[i + 1] < c * KernelSum
\* a positive constant array smoothed that has an element with all its taps
\* inside
C18_Witness ==
    /\ Smoothed
    /\ ConstantInput
    /\ combinedMagnitudes[1] > 0
    /\ \E i \in 0..(Len(combinedMagnitudes) - 1) :
          AwayFromEnds(Len(combinedMagnitudes), i)

-----------------------------------------------------------------------------
(* Properties of the offset and stride controls (SpecSpinner) *)

\* a step calls reprocessWithOffsetStride
Reprocesses == reprocessed' # reprocessed

\* C19: a change of the offset or the stride never re-runs performFFT (the
\* dominant frequency, the selected lines, the FFT results and the combined
\* and smoothed spectra stay): the handler stores the new value, and calls
\* reprocessWithOffsetStride with the new offset and stride if and only if
\* the FFT is complete and there is image data.
C19_HandlersOnlyResample ==
    [][handled' # handled =>
          /\ UNCHANGED <<dominantFrequency, selectedLines, fftResults,
                         combinedFFT, smoothedFFT, processing, fftPc>>
          /\ handled'[2] = "offset" =>
                (offset' = handled'[3] /\ stride' = stride)
          /\ handled'[2] = "stride" =>
                (stride' = handled'[3] /\ offset' = offset)
          /\ Reprocesses <=> (isFFTComplete /\ imageData # NoImage)
          /\ Reprocesses =>
                (reprocessed'[2] = offset' /\ reprocessed'[3] = stride')]_vars
\* a typed or stepped offset other than 0 was stored and handed to
\* reprocessWithOffsetStride, together with the stride of the FFT
C19_Witness ==
    /\ handled # <<>>
    /\ handled[2] = "offset"
    /\ offset > 0
    /\ reprocessed # <<>>
    /\ reprocessed[2] = offset
    /\ dominantFrequency > 0
    /\ reprocessed[3] = Frac(imageData.height, dominantFrequency)

\* C20 as stated: after any sequence of operations of the controls the
\* offset handed to the sampler is in [0, 1): never negative, never 1.
C20_OffsetBelowOne ==
    /\ 0 <= offset /\ offset < OffsetUnit
    /\ reprocessed # <<>> =>
          (0 <= reprocessed[2] /\ reprocessed[2] < OffsetUnit)

\* C20, amended: after any sequence of operations of the controls the
\* offset, and the offset handed to the sampler, is in [0, 1]: never
\* negative, never above 1 (it can be 1).
C20_OffsetWithinUnit ==
    /\ 0 <= offset /\ offset <= OffsetUnit
    /\ reprocessed # <<>> =>
          (0 <= reprocessed[2] /\ reprocessed[2] <= OffsetUnit)
\* the offset 1, typed or reached with the increment button, was stored
\* and handed to the sampler
C20_Witness ==
    /\ reprocessed # <<>>
    /\ reprocessed[2] = OffsetUnit
    /\ handled = <<handled[1], "offset", OffsetUnit>>

-----------------------------------------------------------------------------
(* Properties of the flood-fill queue (SpecArt) *)

\* every queue.push of the run so far, in the order of the pushes: the loop
\* takes from the front, so the pushes are the dequeued cells and then the
\* cells still queued
Pushed == dequeued \o queue
PushesOf(c) == Cardinality({k \in 1..Len(Pushed) : Pushed[k] = c})

\* C22: during one run of createTransparentVersion every pixel is pushed onto
\* the flood-fill queue at most once, the four corners and the images of
\* width 1 or height 1 included.
C22_PushedAtMostOnce ==
    artPc \in {"fill", "done"} =>
        \A k \in 1..Len(Pushed) : PushesOf(Pushed[k]) <= 1

\* the pushes of one run are at most the pixels the fill loop adds, each
\* once, and the 2 * width + 2 * height cells the seeding loops look at
DequeueBound(width, height) == width * height + 2 * width + 2 * height
FillRunning == artPc = "fill"
FillOver == artPc \in {"fill", "done"} /\ queue = <<>>

\* C24: the flood fill terminates on every image: the pixels taken from the
\* queue never number more than a bound that depends on width * height only
\* (5 * width * height covers width * height + 2 * width + 2 * height), and
\* a fill that has started reaches the empty queue.
C24_FillTerminates ==
    /\ [](Len(dequeued) <= DequeueBound(ArtIn.width, ArtIn.height)
          /\ DequeueBound(ArtIn.width, ArtIn.height)
                <= 5 * ArtIn.width * ArtIn.height)
    /\ (FillRunning ~> FillOver)
\* a fill that took a pixel twice from the queue has ended
C24_Witness ==
    /\ FillOver
    /\ Len(dequeued) > ArtIn.width * ArtIn.height
    /\ ArtIn.width > 1
    /\ ArtIn.height > 1

-----------------------------------------------------------------------------
(* Properties of the Gaussian smoothing (SpecFFT) *)

\* the taps of result[i] that fall inside an array of length len (i from 0)
TapsInside(len, i) == {j \in (-3)..3 : i + j >= 0 /\ i + j < len}
RECURSIVE WeightedSum(_, _, _)
\* the sum of input[i + j] * w[j] over the taps j of J
WeightedSum(input, i, J) ==
    IF J = {} THEN 0
    ELSE LET j == CHOOSE k \in J : TRUE
         IN  input[i + j + 1] * GaussianWeight(j)
                + WeightedSum(input, i, J \ {j})

\* C23: applyGaussianSmoothing returns an array of the length of its input
\* whose element i is the sum, over the taps j of -3..3 with 0 <= i + j <
\* length, of input[i + j] * w[j]; w is symmetric and positive, falls from
\* its centre, and is normalised by the sum of all seven taps (the unit of
\* the smoothed values); the taps outside the array are dropped and the
\* weights that remain are not renormalised.
C23_SmoothedIsTruncatedConvolution ==
    Smoothed =>
        /\ Len(smoothedMagnitudes) = Len(combinedMagnitudes)
        /\ \A i \in 0..(Len(combinedMagnitudes) - 1) :
              smoothedMagnitudes[i + 1]
                = WeightedSum(combinedMagnitudes, i,
                              TapsInside(Len(combinedMagnitudes), i))
        /\ WeightedSum([k \in 1..7 |-> 1], 3, (-3)..3) = KernelSum
        /\ \A j \in 1..3 : /\ GaussianWeight(j) = GaussianWeight(-j)
                           /\ GaussianWeight(j) > 0
                           /\ GaussianWeight(j) < GaussianWeight(j - 1)
\* an array that is not constant and not zero at its ends has been
\* smoothed, and it has elements with all taps inside and elements without
C23_Witness ==
    /\ Smoothed
    /\ Len(combinedMagnitudes) > 2 * Radius
    /\ combinedMagnitudes[1] > 0
    /\ combinedMagnitudes[Len(combinedMagnitudes)] > 0
    /\ ~ConstantInput
    /\ smoothedMagnitudes[1] < smoothedMagnitudes[Radius + 1]

-----------------------------------------------------------------------------
(* Properties of the stride of the reconstruction (SpecGrid) *)

\* C25: whenever usePixelArtGeneration has built the reconstructed image,
\* the stride it used for the number of columns equals the pixel spacing
\* height / frequency with which the pixelSamples it drew were produced.
C25_ArtStrideIsSampleSpacing ==
    (generatedPixelArt # NoImage /\ artFreq # Null) =>
        artStride[1] * artFreq = artStride[2] * imageData.height

-----------------------------------------------------------------------------
(* Properties of the retry loop of generatePixelArt (SpecGemini) *)

\* the first candidate of a parsed body has a part with inline image data
FirstCandidateHasImagePart(candidates) ==
    /\ Len(candidates) >= 1
    /\ candidates[1].content
    /\ "inlineData" \in Range(candidates[1].parts)
\* the step sends a request
Sends == requests' = requests + 1

\* C28: within one call of generatePixelArt a further request is sent only
\* if fewer than 3 have been sent and the response to the one before was
\* HTTP-OK with a body whose first candidate had no image part; so at most 3
\* requests are sent, none is sent after a response with an image part, and
\* none after a response that is not OK, on which the call fails.
C28_RetryOnlyWithoutImage ==
    /\ [](/\ requests <= 3
          /\ responses \in {requests - 1, requests} \cap Nat
          /\ lastResponse.kind = "notOk" => gemPc = "thrown")
    /\ [][/\ requests' # requests => Sends
          /\ Sends =>
              /\ requests < 3
              /\ responses = requests
              /\ requests > 0 =>
                    /\ lastResponse.kind = "ok"
                    /\ ~FirstCandidateHasImagePart(lastResponse.candidates)]_vars
\* a call that sent its third request and returned, the last body holding an
\* image only in its second candidate
C28_Witness ==
    /\ gemPc = "returned"
    /\ requests = 3
    /\ lastResponse.kind = "ok"
    /\ Len(lastResponse.candidates) = 2
    /\ ~FirstCandidateHasImagePart(lastResponse.candidates)
    /\ lastResponse.candidates[2].content
    /\ "inlineData" \in Range(lastResponse.candidates[2].parts)
    /\ geminiResponse.imageData = Null

-----------------------------------------------------------------------------
(* Properties of the groups of generatePixelArtBatch (SpecBatch) *)

\* the step starts calls of generatePixelArt
StartsCalls == started' > started

\* C29: generatePixelArtBatch with count >= 0 and concurrencyLimit >= 1
\* never has more than concurrencyLimit calls of generatePixelArt in flight,
\* and it starts the calls of a group only when every call of the group
\* before has settled; it starts no more than count calls.
C29_GroupsWithinLimit ==
    /\ [](InFlight <= concurrencyLimit /\ started <= count)
    /\ [][StartsCalls =>
            /\ InFlight = 0
            /\ started' - started <= concurrencyLimit]_vars
\* the second group of a call is in flight, as many calls as the limit allows
C29_Witness ==
    /\ batchPc = "awaiting"
    /\ batchIndex > 0
    /\ concurrencyLimit > 1
    /\ InFlight = concurrencyLimit

-----------------------------------------------------------------------------
(* Properties of the stored list (SpecStorage) *)

\* the step is a call of savePixelArt that returns the saved item
SaveReturns == saveCalls' = saveCalls + 1 /\ lastCall' = "saved"
\* list is a beginning of whole
IsPrefix(list, whole) ==
    Len(list) <= Len(whole) /\ list = SubSeq(whole, 1, Len(list))

\* C30: after any sequence of savePixelArt, deletePixelArt and clearAll
\* calls the stored list holds at most 50 entries, a later save before an
\* earlier one; directly after a successful savePixelArt the saved item is
\* the first element and the rest of the list is the beginning of the list
\* before the call, in its order.
C30_NewestFirstAtMostFifty ==
    /\ [](/\ Len(stored) <= 50
          /\ \A a, b \in 1..Len(stored) : a < b => stored[a] > stored[b])
    /\ [][SaveReturns =>
            /\ stored' # <<>>
            /\ stored'[1] = saveCalls'
            /\ IsPrefix(Tail(stored'), stored)]_vars
\* a save into a full list has returned: the oldest item has gone
C30_Witness ==
    /\ lastCall = "saved"
    /\ Len(stored) = 50
    /\ stored[1] = saveCalls
    /\ stored[1] - stored[50] = 49
    /\ stored[50] > 1

-----------------------------------------------------------------------------
(* Properties of the loading of images (SpecUpload) *)

\* one of the outputs of performFFT is not in its cleared state
OutputsPresent ==
    \/ fftResults # <<>>
    \/ selectedLines # <<>>
    \/ combinedFFT # <<>>
    \/ smoothedFFT # <<>>
    \/ dominantFrequency # Null
    \/ pixelSamples # <<>>

\* C21: the analysis outputs belong to the current image: when a new image
\* is supplied, by file upload or from the generator, the FFT results, the
\* selected lines, the combined and the smoothed spectrum, the dominant
\* frequency and the pixel samples of the image before are cleared, so in no
\* reachable state is imageData a new image while an output stems from
\* another one.
C21_OutputsOfCurrentImage ==
    OutputsPresent => analysed = imageData

\* C26: isFFTComplete is true only while the current image has a detected
\* dominant frequency above 0: isFFTComplete = true implies that
\* dominantFrequency is a positive number computed for the image loaded.
C26_CompleteMeansAnalysed ==
    isFFTComplete =>
        /\ dominantFrequency # Null
        /\ dominantFrequency > 0
        /\ analysed = imageData

\* nothing is loading and everything queued has been rendered
Settled == loading = {} /\ Shown = rendered
RunsOf(id) == Cardinality({k \in 1..Len(ran) : ran[k].id = id})

\* C27: a callback passed to handleImageUpload with a loaded image is run
\* exactly once, and only when imageData holds the data of that image; after
\* it ran pendingCallback is null and later changes of imageData do not run
\* it again.
C27_CallbackRunsOnceOnItsImage ==
    /\ \A k \in 1..Len(ran) : ran[k].at = UploadImage(ran[k].image)
    /\ \A id \in passed : RunsOf(id) <= 1
    /\ Settled => /\ pendingCallback = NoCallback
                  /\ \A id \in passed : RunsOf(id) = 1

=============================================================================
